---- MODULE Spec2Model ----
(***************************************************************************)
(* Streaming repository import (src/lib/hooks/useImportRepo.svelte.ts).    *)
(*                                                                         *)
(* One hook instance (useImportRepo) with its closure state isImporting    *)
(* and abortController, and the run of importRepository as a sequence of   *)
(* continuations: every action is the code that runs between two awaits.   *)
(* abortImport and a further importRepository call are host calls that may *)
(* arrive while the run is suspended.  The provider, the relay callbacks   *)
(* and the event converters are external: their answers are drawn from     *)
(* small sets at the moment the code awaits them.                          *)
(***************************************************************************)
EXTENDS Integers, Sequences, FiniteSets, TLC

\* ---------------------------------------------------------------- bounds
MaxRuns == 2          \* importRepository calls that are accepted
PerPage == 2          \* page size of the listings (perPage = 100 in the source, scaled)
MaxItems == 2         \* items (issues + PRs + comments) the provider holds for one run
MaxNum == 2           \* provider issue / PR numbers are 1..MaxNum
MaxStatus == 1        \* status events convertIssueStatusesToEvents yields per issue
MaxCommitPages == 2   \* pages of one pull request's commit list
ImportTimestamp == 5000   \* Math.floor(Date.now() / 1000) at the start of a run

\* ------------------------------------------------------ program constants
DefaultBatchSize == 30    \* config.relayBatchSize ?? 30
StartOffset == 3600       \* startTimestamp = importTimestamp - 3600
PubkeyLength == 64        \* bridgedPubkey.length === 64
maxRetries == 3           \* new RateLimiter({ maxRetries: 3 })

Nums == 1..MaxNum
Users == {"alice", "Bob"}
Platforms == {"github", "gitlab"}
NoValue == <<>>           \* undefined / null

VARIABLES
  env,              \* the host and the provider of this behaviour: what they may do
  options,          \* UseImportRepoOptions the hook was constructed with
  isImporting,      \* let isImporting = $state(false)
  abortController,  \* let abortController: ImportAbortController | null (0 = null)
  aborted,          \* the controllers whose abort flag is set
  runs,             \* controllers created so far (identity of the newest one)
  pc,               \* the await the run is suspended at ("idle" | ... | "done")
  context,          \* ImportContext of the run
  loc,              \* local variables of the suspended functions
  outcome,          \* what the last importRepository calls returned or threw
  hist              \* observations of the run: what reached the callbacks and the provider

vars == <<env, options, isImporting, abortController, aborted, runs, pc, context, loc, outcome, hist>>

\* ------------------------------------------------------------ input sets
\* UseImportRepoOptions: which callbacks the host supplied.  useImportRepo throws
\* when neither onSignEvent nor eventIO is given, so no hook exists for that case.
AllOptions ==
  [onSignEvent : BOOLEAN, onPublishEvent : BOOLEAN, eventIO : BOOLEAN, onFetchEvents : BOOLEAN]

useImportRepo(o) == o.onSignEvent \/ o.eventIO

Hooks == {o \in AllOptions : useImportRepo(o)}

\* ImportConfig, the provider handle and the platform are fixed by the host when it
\* calls importRepository.  The run reads each of them at fixed places; the model
\* fixes a field at the place the run first reads it and keeps it from then on
\* (<<>> = not read yet, <<v>> = read as v), which yields the same runs.
Reads(field, domain) == IF field = <<>> THEN domain ELSE {field[1]}

\* config.relayBatchSize: <<>> when the host left it unset, <<n>> when set to n.
RelayBatchSizes == {NoValue, <<0>>, <<2>>}

\* context.parsed: the owner and the repository name parsed from the URL.
parsed == [owner |-> "owner", repo |-> "repo"]

\* The fullName of the record a call returns, as its path segments: forkRepo
\* answers with the fork, created under the user's account with the name
\* config.forkName || `${parsed.repo}-imported`; the other calls answer with
\* the repository they were asked about.
fullName(ref) ==
  IF ref = "forkRepo" THEN <<"user", "repo-imported">> ELSE <<parsed.owner, parsed.repo>>

\* RepoMetadata: which call produced the object (reference identity), whether
\* the record is complete, and its fullName.
Repo(ref, full) == [ref |-> ref, full |-> full, fullName |-> fullName(ref)]

\* The hosts and providers the behaviours range over.  A world fixes which
\* callbacks the host may supply, how often and how it calls importRepository,
\* which configuration it may pass, and how much the provider holds and whether
\* its calls may fail.
FullHook == [onSignEvent |-> TRUE, onPublishEvent |-> TRUE, eventIO |-> FALSE,
             onFetchEvents |-> TRUE]

\* Any hook, called again and again (also while a run is in flight), on a
\* provider that may fail and holds no issue, pull request or comment.
SetupWorld ==
  [name |-> "setup", hooks |-> Hooks, maxRuns |-> MaxRuns, reentry |-> TRUE,
   relayBatchSizes |-> {NoValue}, platforms |-> {"gitlab"}, isOwner |-> BOOLEAN,
   users |-> {"alice"}, sinceDate |-> {FALSE}, failures |-> TRUE, items |-> 0,
   converts |-> {TRUE}, nums |-> Nums]

\* A complete hook, one call, any batch size, a provider that holds MaxItems items.
PipelineWorld ==
  [name |-> "pipeline", hooks |-> {FullHook}, maxRuns |-> 1, reentry |-> FALSE,
   relayBatchSizes |-> RelayBatchSizes, platforms |-> {"gitlab"}, isOwner |-> {TRUE},
   users |-> {"alice"}, sinceDate |-> {FALSE}, failures |-> FALSE, items |-> MaxItems,
   converts |-> {TRUE}, nums |-> Nums]

\* Authors whose identity may be bridged: GitHub, with onFetchEvents, with the
\* fetchEvents of eventIO, or with no fetch source at all.
IdentityWorld ==
  [name |-> "identity",
   hooks |-> {FullHook, [FullHook EXCEPT !.onFetchEvents = FALSE],
              [FullHook EXCEPT !.onFetchEvents = FALSE, !.eventIO = TRUE]},
   maxRuns |-> 1, reentry |-> FALSE,
   relayBatchSizes |-> {<<2>>}, platforms |-> {"github"}, isOwner |-> {TRUE},
   users |-> Users, sinceDate |-> {FALSE}, failures |-> FALSE, items |-> 1,
   converts |-> {TRUE}, nums |-> Nums]

\* A since-date cutoff, on a provider whose calls may fail and whose items the
\* converters may yield no event for, and a host that calls importRepository
\* again while the run is in flight.
FilterWorld ==
  [name |-> "filter", hooks |-> {FullHook}, maxRuns |-> 1, reentry |-> TRUE,
   relayBatchSizes |-> {NoValue}, platforms |-> {"gitlab"}, isOwner |-> {TRUE},
   users |-> {"alice"}, sinceDate |-> {TRUE}, failures |-> TRUE, items |-> MaxItems - 1,
   converts |-> BOOLEAN, nums |-> Nums]

\* Two items whose authors may be the same user or two different ones.
AuthorsWorld ==
  [name |-> "authors", hooks |-> {FullHook}, maxRuns |-> 1, reentry |-> FALSE,
   relayBatchSizes |-> {NoValue}, platforms |-> {"gitlab"}, isOwner |-> {TRUE},
   users |-> Users, sinceDate |-> {FALSE}, failures |-> FALSE, items |-> Cardinality(Users),
   converts |-> {TRUE}, nums |-> Nums]

\* Two items by the same author on GitHub, whose identity may be bridged.
RepeatWorld ==
  [AuthorsWorld EXCEPT !.name = "repeat", !.platforms = {"github"}, !.users = {"alice"}]

\* A repository the user does not own: the run forks it and imports three items.
ForkWorld ==
  [PipelineWorld EXCEPT !.name = "fork", !.isOwner = {FALSE},
                        !.relayBatchSizes = {NoValue}, !.items = 3]

\* A since-date cutoff on a provider that holds two items and answers every call.
SinceWorld ==
  [PipelineWorld EXCEPT !.name = "since", !.sinceDate = {TRUE},
                        !.relayBatchSizes = {NoValue}, !.items = 2]

\* GitHub, where a pull request is also listed as the issue of the same number:
\* one number, imported as an issue and as a pull request, each with a comment.
TwinWorld ==
  [PipelineWorld EXCEPT !.name = "twin", !.relayBatchSizes = {NoValue}, !.nums = {1},
                        !.platforms = {"github"}, !.items = 4,
                        !.hooks = {[FullHook EXCEPT !.onFetchEvents = FALSE]}]

Worlds ==
  {SetupWorld, PipelineWorld, IdentityWorld, FilterWorld, AuthorsWorld, RepeatWorld,
   ForkWorld, SinceWorld, TwinWorld}

\* ------------------------------------------------------------ events
\* A signed event.  ptag is the bridged pubkey of a ["p", pubkey] tag ("" = no tag),
\* parent the id of the event a comment is anchored to.
Event(kind, created_at, num, author, ptag, parent) ==
  [kind |-> kind, created_at |-> created_at, num |-> num, author |-> author,
   ptag |-> ptag, parent |-> parent, a |-> NoValue]

\* The id of a signed event is a hash of its content.
EventId(ev) == <<ev.kind, ev.created_at, ev.num, ev.author>>

getProfileMapKey(platform, username) == <<platform, username>>

\* ------------------------------------------------------------ initial state
NoContext ==
  [abortController |-> 0, platform |-> <<>>,
   api |-> [listAllIssueComments |-> <<>>, listPullRequestCommits |-> <<>>],
   config |-> [mirrorIssues |-> <<>>, mirrorPullRequests |-> <<>>, mirrorComments |-> <<>>,
               sinceDate |-> <<>>, relays |-> <<>>, forkRepo |-> <<>>,
               relayBatchSize |-> <<>>],
   batchSize |-> DefaultBatchSize, eventQueue |-> <<>>,
   finalRepo |-> NoValue, repoAddr |-> "", importTimestamp |-> 0, startTimestamp |-> 0, currentTimestamp |-> 0,
   userProfiles |-> {}, profileEvents |-> <<>>,
   bridgedNostrPubkeys |-> <<>>, nip39CheckedKeys |-> {},
   issueEventIdMap |-> <<>>, prEventIdMap |-> <<>>,
   issuesPublished |-> 0, prsPublished |-> 0, commentsPublished |-> 0]

NoItem == [num |-> 0, author |-> "", nStatus |-> 0, cid |-> 0, parent |-> <<>>]

NoLoc ==
  [attempt |-> 0, phase |-> "", invoked |-> 0, retried |-> <<>>, fuel |-> 0, stage |-> "", page |-> 0, pageLen |-> 0,
   remaining |-> 0, cur |-> NoItem, statusLeft |-> 0, flushRet |-> "", total |-> 0,
   commitPage |-> 0, hasShas |-> FALSE, issuesImported |-> 0, prsImported |-> 0,
   commentsImported |-> 0, parents |-> {}, parent |-> 0, commentEventMap |-> <<>>,
   lookup |-> [outcome |-> "", gist |-> [ok |-> FALSE, owner |-> "", npub |-> ""], pubkey |-> ""]]

NoHist ==
  [published |-> <<>>, enqueued |-> <<>>, observed |-> FALSE, afterObserved |-> {},
   queueAtRaise |-> <<>>, peak |-> 0, err |-> "", errAt |-> 0,
   calls |-> {}, created |-> <<>>, publishRejected |-> FALSE,
   queried |-> <<>>, addressed |-> {},
   passed |-> [issue |-> 0, pr |-> 0, comment |-> 0],
   early |-> [issue |-> 0, pr |-> 0, comment |-> 0],
   commitsFailed |-> {}, flying |-> <<>>, token |-> <<>>,
   currents |-> <<>>]

NoOutcome == [kind |-> "none", wrapped |-> FALSE, rejected |-> FALSE, result |-> <<>>]

Init ==
  /\ env \in Worlds
  /\ options \in env.hooks
  /\ isImporting = FALSE
  /\ abortController = 0
  /\ aborted = {}
  /\ runs = 0
  /\ pc = "idle"
  /\ context = NoContext
  /\ loc = NoLoc
  /\ outcome = NoOutcome
  /\ hist = NoHist

\* ------------------------------------------------------------ helpers
Min(a, b) == IF a < b THEN a ELSE b
Max(a, b) == IF a > b THEN a ELSE b
Range(f) == {f[x] : x \in DOMAIN f}
Put(m, k, v) == (k :> v) @@ m      \* Map.set
Get(m, k) == IF k \in DOMAIN m THEN m[k] ELSE NoValue    \* Map.get

\* withRateLimit has returned or thrown: its locals are gone.
Returned(l) == [l EXCEPT !.attempt = 0, !.phase = "", !.invoked = 0, !.retried = <<>>]

\* ImportAbortController.throwIfAborted(): throws ImportAbortedError when the
\* controller's flag is set.
throwIfAborted(c) == c.abortController \in aborted

\* A catch clause that wraps whatever it caught in a new Error.
catchWrapsEverything(err) == [kind |-> "Error", wrapped |-> TRUE]

\* catch (err) of importRepository: what the call throws for a propagated error.
catchClause(err) ==
  IF err = "ImportAbortedError"
    THEN [kind |-> "ImportAbortedError", wrapped |-> FALSE]
    ELSE [kind |-> "Error", wrapped |-> TRUE]

\* What happened after a checkpoint of this run had raised the cancellation error.
Did(h, what) == IF h.observed THEN [h EXCEPT !.afterObserved = @ \cup {what}] ELSE h

\* The run asked the proof source named source about the profile key.
Queried(h, source, key) == [h EXCEPT !.queried = Append(@, <<source, key>>)]

\* updateProgress(step, current) called by the issues pipeline: the current
\* value the notification carries, <<>> when the call passes none.
updateProgress(h, current) == [h EXCEPT !.currents = Append(@, current)]

\* The run called the provider operation or the host callback named what.
Called(h, what) == [h EXCEPT !.calls = @ \cup {what}]

\* The provider operations that take an owner and a repository name.
RepoSites ==
  {"checkRepoOwnership", "forkRepo", "getRepo", "listIssues", "listPullRequests",
   "listPullRequestCommits", "listAllIssueComments", "listIssueComments",
   "listPullRequestComments"}

\* Requests addressed to the repository the run ends up importing into.
RequestTargetFinalRepo(c) ==
  IF c.finalRepo = NoValue THEN parsed
  ELSE [owner |-> c.finalRepo.fullName[1], repo |-> c.finalRepo.fullName[2]]

\* The owner and repository every provider operation is handed:
\* context.parsed.owner, context.parsed.repo.
RequestTarget(c) == parsed

\* The operation of the call site is invoked with its owner and repository.
Addressed(h, site, c) ==
  IF site \in RepoSites
    THEN [h EXCEPT !.addressed = @ \cup {<<site, RequestTarget(c)>>}]
    ELSE h

\* A checkpoint raises: remember the queue as it is at the first raise.
Observe(h, c) ==
  IF h.observed THEN h
  ELSE [h EXCEPT !.observed = TRUE, !.queueAtRaise = c.eventQueue]

\* The run continues at pc2 with context c2, locals l2.
Goto(pc2, c2, l2, h2) ==
  /\ pc' = pc2
  /\ context' = c2
  /\ loc' = l2
  /\ hist' = h2
  /\ UNCHANGED <<env, options, isImporting, abortController, aborted, runs, outcome>>

\* An error reaches catch/finally of importRepository (lines 1559-1581).
Throw(e, c2, h2) ==
  /\ pc' = "done"
  /\ outcome' = [outcome EXCEPT !.kind = catchClause(e).kind, !.wrapped = catchClause(e).wrapped]
  /\ isImporting' = FALSE
  /\ abortController' = 0
  /\ context' = c2
  /\ hist' = [h2 EXCEPT !.err = e]
  /\ UNCHANGED <<env, options, aborted, runs, loc>>

ThrowAborted(c2, h2) == Throw("ImportAbortedError", c2, Observe(h2, c2))

\* ------------------------------------------------------------ batched publisher
\* A flush that publishes the snapshot but leaves the queue as it is.
flushWithoutClear(queue) == [queue |-> queue, batch |-> queue]

\* flushEventQueue: snapshot and clear; every event of the snapshot goes to
\* onPublishEvent when that callback exists, otherwise the promise just resolves.
flushEventQueue(queue) == [queue |-> <<>>, batch |-> queue]

\* An enqueue that flushes only once the length has passed batchSize.
publishEventBatchedLate(c, ev) ==
  LET q == Append(c.eventQueue, ev)
  IN IF Len(q) > c.batchSize THEN flushEventQueue(q) ELSE [queue |-> q, batch |-> <<>>]

\* publishEventBatched: push, then flush when the length reaches batchSize.
publishEventBatched(c, ev) ==
  LET q == Append(c.eventQueue, ev)
  IN IF Len(q) >= c.batchSize THEN flushEventQueue(q) ELSE [queue |-> q, batch |-> <<>>]

Handed(h, batch) ==
  IF batch = <<>> THEN h
  ELSE Did([h EXCEPT !.published = IF options.onPublishEvent THEN @ \o batch ELSE @,
                     !.flying = Append(@, batch)],
           "publish")

\* await publishEventBatched(context, ev), then continue at ret.
\* An enqueue whose caller does not await the flush it starts.
EnqueueThenUnawaited(ev, ret, c, l, h) ==
  LET r == publishEventBatched(c, ev)
      c2 == [c EXCEPT !.eventQueue = r.queue]
      h1 == Did([h EXCEPT !.enqueued = Append(@, ev),
                          !.peak = Max(@, Len(c.eventQueue) + 1)], "enqueue")
  IN Goto(ret, c2, l, Handed(h1, r.batch))

EnqueueThen(ev, ret, c, l, h) ==
  LET r == publishEventBatched(c, ev)
      c2 == [c EXCEPT !.eventQueue = r.queue]
      h1 == Did([h EXCEPT !.enqueued = Append(@, ev),
                          !.peak = Max(@, Len(c.eventQueue) + 1)], "enqueue")
      h2 == Handed(h1, r.batch)
  IN IF r.batch # <<>>
       THEN Goto("flushing", c2, [l EXCEPT !.flushRet = ret], h2)
       ELSE Goto(ret, c2, l, h2)

\* await flushEventQueue(context) at the end of a pipeline, then continue at ret.
FlushThen(ret, c, l, h) ==
  LET r == flushEventQueue(c.eventQueue)
      c2 == [c EXCEPT !.eventQueue = r.queue]
  IN IF r.batch # <<>>
       THEN Goto("flushing", c2, [l EXCEPT !.flushRet = ret], Handed(h, r.batch))
       ELSE Goto(ret, c2, l, h)

\* The publish promises of a batch: whether one of them rejected.
PublishOutcomes == IF env.failures THEN BOOLEAN ELSE {FALSE}

\* A flush that awaits its batch with Promise.all: a rejected publish rejects it.
flushReturnOrReject ==
  /\ pc = "flushing"
  /\ \E rejected \in PublishOutcomes :
       IF rejected THEN Throw("Error", context, [hist EXCEPT !.publishRejected = TRUE])
       ELSE Goto(loc.flushRet, context, [loc EXCEPT !.flushRet = ""], hist)

\* Promise.allSettled (lines 246-254) and the batch delay (257-259) are over:
\* flushEventQueue returns whether or not a publish rejected.
flushReturn ==
  /\ pc = "flushing"
  /\ \E rejected \in PublishOutcomes :
       Goto(loc.flushRet, context, [loc EXCEPT !.flushRet = ""],
            [hist EXCEPT !.publishRejected = @ \/ rejected, !.flying = Tail(@)])

\* ------------------------------------------------------------ identity bridging
\* Kind-0 candidates a relay may return for ["i", "github:<username>", proof]:
\* who signed the profile and what its i-tag carries as proof.
Pubkeys == {"pkA"}
PubkeyLen(pk) == IF pk = "pkA" \/ pk = "pkB" THEN PubkeyLength ELSE 10
Proofs == {"", "bad/format", "gistid"}
FetchEventsResults ==
  {[kind |-> "throws", pubkey |-> "", proof |-> ""],
   [kind |-> "empty", pubkey |-> "", proof |-> ""]}
  \cup [kind : {"candidate"}, pubkey : Pubkeys, proof : Proofs]

\* The gist the proof names, as api.github.com answers: res.ok, owner.login and
\* the npub that follows the verification sentence in one of its files ("" = none).
Logins == {"", "ALICE", "bob"}
Npubs == {"", "npubA", "npubB", "npub1garbage"}
Gists == [ok : BOOLEAN, owner : Logins, npub : Npubs]
NoGist == [ok |-> FALSE, owner |-> "", npub |-> ""]

toLowerCase(s) ==
  CASE s = "ALICE" -> "alice"
    [] s = "Bob" -> "bob"
    [] OTHER -> s

\* nip19.decode: the hex key an npub encodes; "" when decode throws.
nip19decode(npub) ==
  CASE npub = "npubA" -> "pkA"
    [] npub = "npubB" -> "pkB"
    [] OTHER -> ""

\* /^[a-f0-9]{32}$|^[a-zA-Z0-9]+$/.test(proof)
proofFormatOk(proof) == proof = "gistid"

\* A verification that does not compare the gist owner with the username.
verifyIgnoringOwner(username, gist, expectedPubkey) ==
  /\ gist.ok
  /\ gist.owner # ""
  /\ gist.npub # ""
  /\ nip19decode(gist.npub) # ""
  /\ nip19decode(gist.npub) = expectedPubkey

\* verifyGitHubGistProof after the gist arrived (lines 507-549).
verifyGitHubGistProof(username, gist, expectedPubkey) ==
  /\ gist.ok
  /\ gist.owner # ""
  /\ toLowerCase(gist.owner) = toLowerCase(username)
  /\ gist.npub # ""
  /\ nip19decode(gist.npub) # ""
  /\ nip19decode(gist.npub) = expectedPubkey

\* addBridgedPTags: the pubkey of the p-tag pushed on the template, "" when none.
addBridgedPTags(platform, username, bridgedNostrPubkeys) ==
  LET profileKey == getProfileMapKey(platform, username)
  IN IF profileKey \in DOMAIN bridgedNostrPubkeys
        /\ PubkeyLen(bridgedNostrPubkeys[profileKey]) = PubkeyLength
       THEN bridgedNostrPubkeys[profileKey]
       ELSE ""

NoLookup == [outcome |-> "", gist |-> NoGist, pubkey |-> ""]

\* lookupNip39BridgedPubkey returns to ensureUserProfile: "negative" outcomes add
\* the key to nip39CheckedKeys (line 622), "verified" sets bridgedNostrPubkeys
\* (line 612), the early returns (lines 569-586) touch neither.
\* A lookup that falls through to nip39CheckedKeys.add after a verified match too.
LookupReturnsAlwaysChecked(how, gist, pubkey, c, l, h) ==
  LET key == getProfileMapKey(c.platform[1], l.cur.author)
      c2 == CASE how = "verified" ->
                   [c EXCEPT !.bridgedNostrPubkeys = Put(@, key, pubkey),
                             !.nip39CheckedKeys = @ \cup {key}]
              [] how \in {"cachedVerified", "cachedChecked",
                          "unsupportedPlatform", "noFetchSource"} -> c
              [] OTHER -> [c EXCEPT !.nip39CheckedKeys = @ \cup {key}]
  IN Goto("ensureUserProfile", c2,
          [Returned(l) EXCEPT !.lookup = [outcome |-> how, gist |-> gist, pubkey |-> pubkey]],
          h)

LookupReturns(how, gist, pubkey, c, l, h) ==
  LET key == getProfileMapKey(c.platform[1], l.cur.author)
      c2 == CASE how = "verified" ->
                   [c EXCEPT !.bridgedNostrPubkeys = Put(@, key, pubkey)]
              [] how \in {"cachedVerified", "cachedChecked",
                          "unsupportedPlatform", "noFetchSource"} -> c
              [] OTHER -> [c EXCEPT !.nip39CheckedKeys = @ \cup {key}]
  IN Goto("ensureUserProfile", c2,
          [Returned(l) EXCEPT !.lookup = [outcome |-> how, gist |-> gist, pubkey |-> pubkey]],
          h)

\* ------------------------------------------------------------ rate-limited calls
FetchSites ==
  {"validateTokenPermissions", "checkRepoOwnership", "forkRepo", "getRepo",
   "listIssues", "listPullRequests", "listPullRequestCommits", "gist",
   "listAllIssueComments", "listIssueComments", "listPullRequestComments"}

\* A commit-list loop without its try ... catch: the error of the sub-fetch
\* propagates like any other.
RaiseAtCommitsUncaught(site, e, c, l, h) ==
  CASE site = "gist" ->
         LookupReturns("fetchFailure", NoGist, l.lookup.pubkey, c, l, [h EXCEPT !.errAt = 0])
    [] OTHER -> Throw(e, c, h)

\* An error leaves withRateLimit at the given call site.  The commit-list loop
\* (try ... catch, lines 865-888) and verifyGitHubGistProof (try ... catch,
\* lines 497-552) catch whatever is thrown, the cancellation error included.
RaiseAt(site, e, c, l, h) ==
  CASE site = "listPullRequestCommits" ->
         Goto("prConvert", c, [Returned(l) EXCEPT !.hasShas = FALSE],
              [h EXCEPT !.errAt = 0, !.commitsFailed = @ \cup {l.cur.num}])
    [] site = "gist" ->
         LookupReturns("fetchFailure", NoGist, l.lookup.pubkey, c, l, [h EXCEPT !.errAt = 0])
    [] OTHER -> Throw(e, c, h)

\* The (provider, method) pair a call site hands to withRateLimit: the gist fetch
\* passes "github" (line 498), forkRepo passes "POST" (line 439), every other
\* site passes context.platform and "GET".
ThrottlePair(site, c) ==
  <<IF site = "gist" THEN <<"github">> ELSE c.platform,
    IF site = "forkRepo" THEN "POST" ELSE "GET">>

\* withRateLimit(provider, method, operation), first pass of the loop:
\* attempt = 1, throwIfAborted (line 295), then await throttle (line 298).
withRateLimit(site, c, l, h) ==
  IF throwIfAborted(c)
    THEN RaiseAt(site, "ImportAbortedError", c, l, Observe(h, c))
    ELSE Goto(site, c, [Returned(l) EXCEPT !.attempt = 1, !.phase = "throttle"], h)

\* rateLimiter.throttle(provider, method) is over: the operation is invoked
\* (line 302) with nothing in between.
throttleReturn ==
  /\ pc \in FetchSites
  /\ loc.phase = "throttle"
  /\ Goto(pc, context, [loc EXCEPT !.phase = "op", !.invoked = @ + 1],
          Addressed(Called(Did(hist, "fetch"), pc), pc, context))

\* The errors an operation may reject with, as RateLimiter.shouldRetry sorts
\* them: "fatal" (authorization, not found, validation) and "retryable" (rate
\* limit, 5xx, network).  A failure is the caught error together with the
\* attempt number handed to shouldRetry with it (line 306).
ErrorClasses == {"fatal", "retryable"}
Failure(errorClass, attempt) == [class |-> errorClass, attempt |-> attempt]

\* RateLimiter.shouldRetry(error, attempt).retry
shouldRetry(errorClass, attempt) == errorClass = "retryable" /\ attempt < maxRetries

\* A loop that goes round without attempt++.
nextAttemptSameNumber(c, l, h) ==
  IF throwIfAborted(c)
    THEN RaiseAt(pc, "ImportAbortedError", c, l, Observe(h, c))
    ELSE Goto(pc, c, [l EXCEPT !.phase = "throttle"], h)

\* A loop that invokes the operation again without throttling first.
nextAttemptUnthrottled(c, l, h) ==
  IF throwIfAborted(c)
    THEN RaiseAt(pc, "ImportAbortedError", c, l, Observe(h, c))
    ELSE Goto(pc, c, [l EXCEPT !.attempt = @ + 1, !.phase = "op", !.invoked = @ + 1],
              Called(Did(h, "fetch"), pc))

\* attempt++ (line 318) and the top of the loop again: throwIfAborted (295),
\* then await throttle (298).
nextAttempt(c, l, h) ==
  IF throwIfAborted(c)
    THEN RaiseAt(pc, "ImportAbortedError", c, l, Observe(h, c))
    ELSE Goto(pc, c, [l EXCEPT !.attempt = @ + 1, !.phase = "throttle"], h)

\* A catch block that retries whatever the retry decision says.
operationRetryWhateverTheDecision ==
  /\ env.failures
  /\ pc \in FetchSites
  /\ loc.phase = "op"
  /\ \E errorClass \in ErrorClasses, delay \in {0, 1} :
       LET l2 == [loc EXCEPT !.retried = Append(@, Failure(errorClass, loc.attempt))]
       IN IF delay > 0
            THEN Goto(pc, context, [l2 EXCEPT !.phase = "wait"], Did(hist, "wait"))
            ELSE nextAttempt(context, l2, hist)

\* The operation failed and the limiter asks for a retry (lines 306-318): with
\* delay > 0 waitWithProgress is awaited, otherwise the loop goes round at once.
operationRetry ==
  /\ env.failures
  /\ pc \in FetchSites
  /\ loc.phase = "op"
  /\ \E errorClass \in ErrorClasses, delay \in {0, 1} :
       /\ shouldRetry(errorClass, loc.attempt)
       /\ LET l2 == [loc EXCEPT !.retried = Append(@, Failure(errorClass, loc.attempt))]
          IN IF delay > 0
               THEN Goto(pc, context, [l2 EXCEPT !.phase = "wait"], Did(hist, "wait"))
               ELSE nextAttempt(context, l2, hist)

\* waitWithProgress is over (line 315).
waitReturn ==
  /\ pc \in FetchSites
  /\ loc.phase = "wait"
  /\ nextAttempt(context, loc, hist)

\* The operation failed and the limiter does not retry: the error is rethrown.
operationFail ==
  /\ env.failures
  /\ pc \in FetchSites
  /\ loc.phase = "op"
  /\ \E errorClass \in ErrorClasses :
       /\ ~shouldRetry(errorClass, loc.attempt)
       /\ RaiseAt(pc, errorClass, context, loc, [hist EXCEPT !.errAt = loc.invoked])

\* ------------------------------------------------------------ the hook
\* importRepository as it would run without the isImporting guard of line 1404.
importRepositoryUnguarded ==
  /\ runs < env.maxRuns
  /\ context' = [NoContext EXCEPT !.abortController = runs + 1]
  /\ isImporting' = TRUE
  /\ abortController' = runs + 1
  /\ runs' = runs + 1
  /\ pc' = "initializeImportContext"
  /\ loc' = [NoLoc EXCEPT !.fuel = env.items]
  /\ outcome' = [NoOutcome EXCEPT !.kind = "pending"]
  /\ hist' = NoHist
  /\ UNCHANGED <<env, options, aborted>>

\* importRepository as it would run if every run used the controller of the
\* first one instead of a new ImportAbortController.
importRepositorySameController ==
  /\ ~isImporting
  /\ runs < env.maxRuns
  /\ context' = [NoContext EXCEPT !.abortController = 1]
  /\ isImporting' = TRUE
  /\ abortController' = 1
  /\ runs' = runs + 1
  /\ pc' = "initializeImportContext"
  /\ loc' = [NoLoc EXCEPT !.fuel = env.items]
  /\ outcome' = [NoOutcome EXCEPT !.kind = "pending"]
  /\ hist' = NoHist
  /\ UNCHANGED <<env, options, aborted>>

\* importRepository, accepted (lines 1404-1414): the guard, then the new
\* controller, rate limiter and wrapper.
importRepository ==
  /\ ~isImporting
  /\ runs < env.maxRuns
  /\ context' = [NoContext EXCEPT !.abortController = runs + 1]
  /\ isImporting' = TRUE
  /\ abortController' = runs + 1
  /\ runs' = runs + 1
  /\ pc' = "initializeImportContext"
  /\ loc' = [NoLoc EXCEPT !.fuel = env.items]
  /\ outcome' = [NoOutcome EXCEPT !.kind = "pending"]
  /\ hist' = NoHist
  /\ UNCHANGED <<env, options, aborted>>

\* importRepository while a run is in flight (lines 1404-1406): throws before
\* the try block, so neither catch nor finally runs for this call.
importRepositoryRejected ==
  /\ env.reentry
  /\ isImporting
  /\ outcome' = [outcome EXCEPT !.rejected = TRUE]
  /\ UNCHANGED <<env, options, isImporting, abortController, aborted, runs, pc, context, loc, hist>>

\* abortImport(reason) (lines 1587-1591)
abortImport ==
  /\ IF abortController # 0
       THEN aborted' = aborted \cup {abortController}
       ELSE UNCHANGED aborted
  /\ UNCHANGED <<env, options, isImporting, abortController, runs, pc, context, loc, outcome, hist>>

\* ------------------------------------------------------------ setup
\* initializeImportContext (lines 340-373), the context literal (1433-1452) and
\* the start of validateTokenAndOwnership (385-388).
initializeImportContext ==
  /\ pc = "initializeImportContext"
  /\ \E tokenGiven \in BOOLEAN, relayBatchSize \in env.relayBatchSizes :
       IF throwIfAborted(context) THEN ThrowAborted(context, hist)
       ELSE IF ~tokenGiven THEN Throw("Error", context, hist)
       ELSE LET c2 == [context EXCEPT
                         !.config.relayBatchSize = <<relayBatchSize>>,
                         !.batchSize = IF relayBatchSize = NoValue
                                         THEN DefaultBatchSize
                                         ELSE relayBatchSize[1],
                         !.importTimestamp = ImportTimestamp]
            IN withRateLimit("validateTokenPermissions", c2, loc, hist)

\* validateTokenAndOwnership after validateTokenPermissions answered (395-409)
\* A validation step that goes on to the ownership check whatever the answer.
validateTokenPermissionsReturnUnchecked ==
  /\ pc = "validateTokenPermissions"
  /\ loc.phase = "op"
  /\ \E valid \in BOOLEAN, hasRead \in BOOLEAN :
       LET h2 == [hist EXCEPT !.token = <<valid, hasRead>>]
       IN IF throwIfAborted(context) THEN ThrowAborted(context, h2)
          ELSE withRateLimit("checkRepoOwnership", context, loc, h2)

validateTokenPermissionsReturn ==
  /\ pc = "validateTokenPermissions"
  /\ loc.phase = "op"
  /\ \E valid \in BOOLEAN, hasRead \in BOOLEAN :
       LET h2 == [hist EXCEPT !.token = <<valid, hasRead>>]
       IN IF ~valid \/ ~hasRead THEN Throw("Error", context, h2)
          ELSE IF throwIfAborted(context) THEN ThrowAborted(context, h2)
          ELSE withRateLimit("checkRepoOwnership", context, loc, h2)

\* fetchRepoMetadata (lines 450-470)
fetchRepoMetadata(ownershipRepo, c, l, h) ==
  IF c.finalRepo = ownershipRepo
    THEN IF throwIfAborted(c) THEN ThrowAborted(c, h)
         ELSE withRateLimit("getRepo", c, l, h)
    ELSE IF c.finalRepo = NoValue THEN Throw("Error", c, h)
    ELSE Goto("convertRepoEvents", c, Returned(l), h)

\* An ensureForkedRepo that forks for a non-owner whatever config.forkRepo says.
ensureForkedRepoWhateverTheConfig(isOwner, ownershipRepo, c, l, h) ==
  IF isOwner THEN fetchRepoMetadata(ownershipRepo, c, l, h)
  ELSE \E forkRepo \in BOOLEAN :
         LET c3 == [c EXCEPT !.config.forkRepo = <<forkRepo>>]
         IN IF throwIfAborted(c3) THEN ThrowAborted(c3, h)
            ELSE withRateLimit("forkRepo", c3, l, h)

\* ensureForkedRepo up to its await (lines 420-441); for the owner it returns
\* context.finalRepo and fetchRepoMetadata follows (line 1474).
ensureForkedRepo(isOwner, ownershipRepo, c, l, h) ==
  IF isOwner THEN fetchRepoMetadata(ownershipRepo, c, l, h)
  ELSE \E forkRepo \in BOOLEAN :
         LET c3 == [c EXCEPT !.config.forkRepo = <<forkRepo>>]
         IN IF ~forkRepo THEN Throw("ForkRequired", c3, h)
            ELSE IF throwIfAborted(c3) THEN ThrowAborted(c3, h)
            ELSE withRateLimit("forkRepo", c3, l, h)

\* checkRepoOwnership answered: lines 411-414 and 1455-1467
checkRepoOwnershipReturn ==
  /\ pc = "checkRepoOwnership"
  /\ loc.phase = "op"
  /\ \E found \in BOOLEAN, full \in BOOLEAN, isOwner \in env.isOwner :
       LET ownershipRepo == IF found THEN Repo("checkRepoOwnership", full) ELSE NoValue
           c2 == [context EXCEPT !.finalRepo = ownershipRepo]
       IN IF ownershipRepo = NoValue THEN Throw("Error", context, hist)
          ELSE ensureForkedRepo(isOwner, ownershipRepo, c2, loc, hist)

\* forkRepo answered (lines 443-444, 1467-1479)
forkRepoReturn ==
  /\ pc = "forkRepo"
  /\ loc.phase = "op"
  /\ \E created \in BOOLEAN :
       IF ~created THEN Throw("Error", context, hist)
       ELSE fetchRepoMetadata(context.finalRepo,
                              [context EXCEPT !.finalRepo = Repo("forkRepo", TRUE)],
                              loc, hist)

\* getRepo answered (lines 1474-1484)
getRepoReturn ==
  /\ pc = "getRepo"
  /\ loc.phase = "op"
  /\ \E found \in BOOLEAN :
       IF ~found THEN Throw("Error", context, hist)
       ELSE Goto("convertRepoEvents", [context EXCEPT !.finalRepo = Repo("getRepo", TRUE)],
                 Returned(loc), hist)

\* context.repoAddr = `30617:${userPubkey}:${repoName}`, repoName being the last
\* segment of finalRepo.fullName (lines 1488-1490).
repoAddr(finalRepo) == <<"30617", "userPubkey", finalRepo.fullName[Len(finalRepo.fullName)]>>

\* Lines 1486-1499: the repo address and the timestamps, convertRepoEvents
\* (1258-1287) and publishRepoEvents up to its first await (1302-1321).
convertRepoEvents ==
  /\ pc = "convertRepoEvents"
  /\ LET c1 == [context EXCEPT !.repoAddr = repoAddr(context.finalRepo),
                               !.startTimestamp = context.importTimestamp - StartOffset,
                               !.currentTimestamp = context.importTimestamp - StartOffset]
     IN IF throwIfAborted(c1) THEN ThrowAborted(c1, hist)
        ELSE \E relays \in BOOLEAN :
               LET c2 == [c1 EXCEPT !.config.relays = <<relays>>]
               IN IF ~relays THEN Throw("Error", c2, hist)
                  ELSE IF ~options.onSignEvent
                    THEN Throw("EventIOCannotSign", c2, Did(hist, "convert"))
                  ELSE Goto("signRepoAnnouncement", c2, loc,
                            Called(Did(hist, "convert"), "onSignEvent"))

\* The templates of the two repo events: created_at is the importTimestamp
\* handed to convertRepoToNostrEvent / convertRepoToStateEvent (1272-1282).
RepoAnnouncement(c) == Event("announcement", c.importTimestamp, 0, "user", "", NoValue)
RepoState(c) == Event("state", c.importTimestamp, 0, "user", "", NoValue)

\* await context.onSignEvent(repoEvents.announcement) settled (line 1311)
signRepoAnnouncementReturn ==
  /\ pc = "signRepoAnnouncement"
  /\ \E ok \in BOOLEAN :
       IF ~ok THEN Throw("RepoEventFailed", context, hist)
       ELSE Goto("signRepoState", context, loc, hist)

\* A publishRepoEvents that publishes when it can and goes on when it cannot.
signRepoStateReturnPublisherOptional ==
  /\ pc = "signRepoState"
  /\ \E ok \in BOOLEAN :
       IF ~ok THEN Throw("RepoEventFailed", context, hist)
       ELSE IF ~options.onPublishEvent THEN Goto("mirrorIssues", context, loc, hist)
       ELSE Goto("publishRepoAnnouncement", context, loc,
                 Did([hist EXCEPT !.published = Append(@, RepoAnnouncement(context))],
                     "publish"))

\* await context.onSignEvent(repoEvents.state) settled (1312), then 1324-1325
signRepoStateReturn ==
  /\ pc = "signRepoState"
  /\ \E ok \in BOOLEAN :
       IF ~ok THEN Throw("RepoEventFailed", context, hist)
       ELSE IF ~options.onPublishEvent THEN Throw("PublisherRequired", context, hist)
       ELSE Goto("publishRepoAnnouncement", context, loc,
                 Did([hist EXCEPT !.published = Append(@, RepoAnnouncement(context))],
                     "publish"))

\* A publish of the announcement whose failure is noted and survived, as the
\* publishes of a batch are.
publishRepoAnnouncementReturnSettled ==
  /\ pc = "publishRepoAnnouncement"
  /\ \E ok \in BOOLEAN :
       Goto("publishRepoState", context, loc,
            Did([hist EXCEPT !.published = Append(@, RepoState(context)),
                             !.err = IF ok THEN @ ELSE "RepoEventFailed"], "publish"))

\* await context.onPublishEvent(signedRepoAnnouncement) settled, then line 1326
publishRepoAnnouncementReturn ==
  /\ pc = "publishRepoAnnouncement"
  /\ \E ok \in BOOLEAN :
       IF ~ok THEN Throw("RepoEventFailed", context, hist)
       ELSE Goto("publishRepoState", context, loc,
                 Did([hist EXCEPT !.published = Append(@, RepoState(context))], "publish"))

\* await context.onPublishEvent(signedRepoState) settled
publishRepoStateReturn ==
  /\ pc = "publishRepoState"
  /\ \E ok \in BOOLEAN :
       IF ~ok THEN Throw("RepoEventFailed", context, hist)
       ELSE Goto("mirrorIssues", context, loc, hist)

\* ------------------------------------------------------------ profiles
\* Where the item loop of each pipeline continues once ensureUserProfile returned.
AfterProfile(stage) ==
  CASE stage = "issues" -> "issueConvert"
    [] stage = "prs" -> "prCommits"
    [] OTHER -> "commentConvert"

\* generatePlatformUserProfile(platform, username).profileEvent: derived from the
\* two arguments alone; it is given neither importTimestamp nor currentTimestamp.
ProfileEvent(c, username) == Event("profile", c.importTimestamp, 0, username, "", NoValue)

\* What ensureUserProfile does once it has found no profile for the key
\* (lines 654-655, 568-589), up to the first await of lookupNip39BridgedPubkey.
lookupNip39BridgedPubkey(platform, c, l, h) ==
    LET key == getProfileMapKey(platform, l.cur.author)
    IN IF key \in DOMAIN c.bridgedNostrPubkeys
         THEN LookupReturns("cachedVerified", NoGist, "", c, l, h)
       ELSE IF key \in c.nip39CheckedKeys
         THEN LookupReturns("cachedChecked", NoGist, "", c, l, h)
       ELSE IF platform # "github"
         THEN LookupReturns("unsupportedPlatform", NoGist, "", c, l, h)
       ELSE IF ~(options.onFetchEvents \/ options.eventIO)
         THEN LookupReturns("noFetchSource", NoGist, "", c, l, h)
       ELSE Goto("fetchEvents", c, l, Queried(h, "fetchEvents", key))

\* An ensureUserProfile without the userProfiles.has(profileKey) guard.
ensureUserProfileCallUnguarded(c0, l, h) ==
  \E platform \in Reads(c0.platform, env.platforms) :
    lookupNip39BridgedPubkey(platform, [c0 EXCEPT !.platform = <<platform>>], l, h)

\* await ensureUserProfile(context, login): the guard of lines 649-652, then
\* the lookup.
ensureUserProfileCall(c0, l, h) ==
  \E platform \in Reads(c0.platform, env.platforms) :
    LET c == [c0 EXCEPT !.platform = <<platform>>]
        key == getProfileMapKey(platform, l.cur.author)
    IN IF key \in c.userProfiles THEN Goto(AfterProfile(l.stage), c, l, h)
       ELSE lookupNip39BridgedPubkey(platform, c, l, h)

LookupKeyOf(c, l) == getProfileMapKey(c.platform[1], l.cur.author)

\* A lookup without the try ... catch of lines 588-620: a fetchEvents that
\* throws fails the run.
fetchEventsReturnUncaught ==
  /\ pc = "fetchEvents"
  /\ \E r \in FetchEventsResults :
       CASE r.kind = "throws" -> Throw("Error", context, hist)
         [] r.kind = "empty" -> LookupReturns("noCandidate", NoGist, "", context, loc, hist)
         [] OTHER ->
              IF r.proof = ""
                THEN LookupReturns("noProof", NoGist, r.pubkey, context, loc, hist)
              ELSE IF ~proofFormatOk(r.proof)
                THEN LookupReturns("malformedProof", NoGist, r.pubkey, context, loc, hist)
              ELSE withRateLimit("gist", context,
                                 [loc EXCEPT !.lookup = [NoLookup EXCEPT !.pubkey = r.pubkey]],
                                 Queried(hist, "gist", LookupKeyOf(context, loc)))

\* await fetchEvents(...) settled (lines 589-610, 493-498)
fetchEventsReturn ==
  /\ pc = "fetchEvents"
  /\ \E r \in FetchEventsResults :
       CASE r.kind = "throws" -> LookupReturns("lookupFailure", NoGist, "", context, loc, hist)
         [] r.kind = "empty" -> LookupReturns("noCandidate", NoGist, "", context, loc, hist)
         [] OTHER ->
              IF r.proof = ""
                THEN LookupReturns("noProof", NoGist, r.pubkey, context, loc, hist)
              ELSE IF ~proofFormatOk(r.proof)
                THEN LookupReturns("malformedProof", NoGist, r.pubkey, context, loc, hist)
              ELSE withRateLimit("gist", context,
                                 [loc EXCEPT !.lookup = [NoLookup EXCEPT !.pubkey = r.pubkey]],
                                 Queried(hist, "gist", LookupKeyOf(context, loc)))

\* Why verifyGitHubGistProof answered what it answered for a gist.
GistOutcome(username, gist, expectedPubkey) ==
  IF verifyGitHubGistProof(username, gist, expectedPubkey) THEN "verified"
  ELSE IF ~gist.ok THEN "fetchFailure"
  ELSE IF gist.owner = "" THEN "malformedArtifact"
  ELSE IF toLowerCase(gist.owner) # toLowerCase(username) THEN "ownerMismatch"
  ELSE IF nip19decode(gist.npub) = "" THEN "malformedArtifact"
  ELSE "pubkeyMismatch"

\* The gist arrived (lines 507-549, 611-623)
gistReturn ==
  /\ pc = "gist"
  /\ loc.phase = "op"
  /\ \E gist \in Gists :
       LookupReturns(GistOutcome(loc.cur.author, gist, loc.lookup.pubkey), gist,
                     loc.lookup.pubkey, context, loc, hist)

\* context.profileEvents.set(profileKey, profileEvent): a Map keeps the place
\* of a key it already holds and replaces its value.
SetProfileEvent(profileEvents, ev) ==
  IF \E i \in DOMAIN profileEvents : profileEvents[i].author = ev.author
    THEN [i \in DOMAIN profileEvents |->
            IF profileEvents[i].author = ev.author THEN ev ELSE profileEvents[i]]
    ELSE Append(profileEvents, ev)

\* ensureUserProfile after the lookup (lines 657-665)
ensureUserProfile ==
  /\ pc = "ensureUserProfile"
  /\ LET key == getProfileMapKey(context.platform[1], loc.cur.author)
     IN Goto(AfterProfile(loc.stage),
             [context EXCEPT
                !.userProfiles = @ \cup {key},
                !.profileEvents = SetProfileEvent(@, ProfileEvent(context, loc.cur.author))],
             [loc EXCEPT !.lookup = NoLookup],
             [hist EXCEPT !.created = Append(@, key)])

\* ------------------------------------------------------------ issues
\* A page as the provider returns it: n items, of which kept pass the client-side
\* since-date filter (all of them when no sinceDate is configured).
Pages(sinceDate, l) ==
  {p \in [n : 0..Min(PerPage, l.fuel), kept : 0..PerPage] :
     /\ p.kept <= p.n
     /\ (~sinceDate => p.kept = p.n)}

\* A loop that processes the page as the provider returned it.
unfiltered(p) == p.n

\* filteredIssues / filteredPrs / filteredComments, and the continue of the
\* fallback loops: the items of the page the loop goes on to process.
filtered(p) == p.kept

\* The provider returned a page of items of the kind: so many of them created
\* at or after the since-date, so many before it.
Listed(h, kind, p) ==
  [h EXCEPT !.passed[kind] = @ + p.kept, !.early[kind] = @ + (p.n - p.kept)]

IssueItems == [num : env.nums, author : env.users, nStatus : 0..MaxStatus, cid : {0}, parent : {NoValue}]

\* Top of the page loop of fetchAndPublishIssuesStreaming (lines 688-700)
listIssues(c, l, h) ==
  IF throwIfAborted(c) THEN ThrowAborted(c, h)
  ELSE withRateLimit("listIssues", c, l, h)

\* A run that streams the issues whatever config.mirrorIssues says.
mirrorIssuesWhateverTheFlag ==
  /\ pc = "mirrorIssues"
  /\ \E mirror \in BOOLEAN :
       LET c2 == [context EXCEPT !.config.mirrorIssues = <<mirror>>]
       IN IF throwIfAborted(c2) THEN ThrowAborted(c2, hist)
          ELSE listIssues(c2, [loc EXCEPT !.stage = "issues", !.page = 1, !.total = 0],
                          updateProgress(hist, <<>>))

\* if (config.mirrorIssues) ... (1504-1505), fetchAndPublishIssuesStreaming (677-685)
mirrorIssues ==
  /\ pc = "mirrorIssues"
  /\ \E mirror \in BOOLEAN :
       LET c2 == [context EXCEPT !.config.mirrorIssues = <<mirror>>]
       IN IF ~mirror THEN Goto("mirrorPullRequests", c2, loc, hist)
          ELSE IF throwIfAborted(c2) THEN ThrowAborted(c2, hist)
          ELSE listIssues(c2, [loc EXCEPT !.stage = "issues", !.page = 1, !.total = 0],
                          updateProgress(hist, <<>>))

\* A page of issues arrived (lines 702-704, 808-811)
listIssuesReturn ==
  /\ pc = "listIssues"
  /\ loc.phase = "op"
  /\ \E sinceDate \in Reads(context.config.sinceDate, env.sinceDate) :
     \E p \in Pages(sinceDate, loc) :
       LET c2 == [context EXCEPT !.config.sinceDate = <<sinceDate>>]
           l2 == [Returned(loc) EXCEPT !.pageLen = p.n,
                             !.remaining = filtered(p), !.fuel = @ - p.n]
           h2 == Listed(hist, "issue", p)
       IN IF p.n = 0
            THEN FlushThen("mirrorPullRequests", c2,
                           [l2 EXCEPT !.issuesImported = loc.total], h2)
            ELSE Goto("issueItem", c2, l2, h2)

\* The next issue of the page (lines 707-719), or the end of the page (798-805)
issueItem ==
  /\ pc = "issueItem"
  /\ IF loc.remaining = 0
       THEN listIssues(context, [loc EXCEPT !.page = @ + 1], hist)
       ELSE \E issue \in IssueItems :
              IF throwIfAborted(context) THEN ThrowAborted(context, hist)
              ELSE ensureUserProfileCall(context, [loc EXCEPT !.cur = issue], hist)

IssueEvent(c, issue) ==
  [Event("issue", c.currentTimestamp, issue.num, issue.author,
         addBridgedPTags(c.platform[1], issue.author, c.bridgedNostrPubkeys), NoValue)
     EXCEPT !.a = c.repoAddr]

\* Convert, tag, sign and enqueue the issue (lines 722-746); nothing happens
\* when the converter yields no event (line 730)
issueConvert ==
  /\ pc = "issueConvert"
  /\ \E converted \in env.converts :
       IF converted
         THEN EnqueueThen(IssueEvent(context, loc.cur), "issuePublished", context, loc,
                          Called(Did(hist, "convert"), "onSignEvent"))
         ELSE Goto("issueItem", context, [loc EXCEPT !.remaining = @ - 1, !.cur = NoItem],
                   Did(hist, "convert"))

\* After await publishEventBatched (lines 749-763)
issuePublished ==
  /\ pc = "issuePublished"
  /\ Goto("issueStatus",
          [context EXCEPT
             !.issueEventIdMap = Put(@, loc.cur.num, EventId(IssueEvent(context, loc.cur))),
             !.currentTimestamp = @ + 1,
             !.issuesPublished = loc.total + 1],
          [loc EXCEPT !.total = @ + 1, !.statusLeft = loc.cur.nStatus],
          hist)

\* A progress value that counts the issues published before the current one.
totalIssuesBefore(l) == l.total - 1

\* totalIssues as the issue loop holds it after totalIssues++ (line 751).
totalIssues(l) == l.total

\* The next status event of the issue (lines 765-784), or the progress update (794).
\* The eventIO branch (772-781) is for a hook without onSignEvent; such a run has
\* ended in publishRepoEvents (1313-1321) before any issue is fetched.
issueStatus ==
  /\ pc = "issueStatus"
  /\ IF loc.statusLeft = 0
       THEN Goto("issueItem", context, [loc EXCEPT !.remaining = @ - 1, !.cur = NoItem],
                 updateProgress(hist, <<totalIssues(loc)>>))
     ELSE IF throwIfAborted(context) THEN ThrowAborted(context, hist)
     ELSE IF options.onSignEvent
       THEN Goto("signStatus", context, loc, Called(hist, "onSignEvent"))
     ELSE IF options.eventIO THEN Goto("eventIOPublishStatus", context, loc, hist)
     ELSE Throw("Error", context, hist)

StatusEvent(c, issue) ==
  [Event("status", c.currentTimestamp, issue.num, "user", "",
         c.issueEventIdMap[issue.num])
     EXCEPT !.a = c.repoAddr]

\* await context.onSignEvent(statusData.event) settled, then the enqueue (771, 787)
signStatusReturn ==
  /\ pc = "signStatus"
  /\ \E ok \in BOOLEAN :
       IF ~ok THEN Throw("Error", context, hist)
       ELSE EnqueueThen(StatusEvent(context, loc.cur), "statusPublished", context, loc, hist)

\* After await publishEventBatched of a status event (lines 789-790)
statusPublished ==
  /\ pc = "statusPublished"
  /\ Goto("issueStatus", [context EXCEPT !.currentTimestamp = @ + 1],
          [loc EXCEPT !.statusLeft = @ - 1], hist)

\* ------------------------------------------------------------ pull requests
PrItems == [num : env.nums, author : env.users, nStatus : {0}, cid : {0}, parent : {NoValue}]

\* Top of the page loop of fetchAndPublishPRsStreaming (lines 829-840)
listPullRequests(c, l, h) ==
  IF throwIfAborted(c) THEN ThrowAborted(c, h)
  ELSE withRateLimit("listPullRequests", c, l, h)

\* if (config.mirrorPullRequests) ... (1511-1513), fetchAndPublishPRsStreaming (820-825)
mirrorPullRequests ==
  /\ pc = "mirrorPullRequests"
  /\ \E mirror \in BOOLEAN :
       LET c2 == [context EXCEPT !.config.mirrorPullRequests = <<mirror>>]
       IN IF ~mirror THEN Goto("mirrorComments", c2, loc, hist)
          ELSE IF throwIfAborted(c2) THEN ThrowAborted(c2, hist)
          ELSE listPullRequests(c2, [loc EXCEPT !.stage = "prs", !.page = 1, !.total = 0], hist)

\* A page of pull requests arrived (lines 843-852, 941-943)
listPullRequestsReturn ==
  /\ pc = "listPullRequests"
  /\ loc.phase = "op"
  /\ \E sinceDate \in Reads(context.config.sinceDate, env.sinceDate) :
     \E p \in Pages(sinceDate, loc) :
       LET c2 == [context EXCEPT !.config.sinceDate = <<sinceDate>>]
           l2 == [Returned(loc) EXCEPT !.pageLen = p.n,
                             !.remaining = filtered(p), !.fuel = @ - p.n]
           h2 == Listed(hist, "pr", p)
       IN IF filtered(p) = 0
            THEN FlushThen("mirrorComments", c2, [l2 EXCEPT !.prsImported = loc.total], h2)
            ELSE Goto("prItem", c2, l2, h2)

\* The next pull request of the page (855-860), or the end of the page (933-937)
prItem ==
  /\ pc = "prItem"
  /\ IF loc.remaining = 0
       THEN IF loc.pageLen < PerPage
              THEN FlushThen("mirrorComments", context,
                             [loc EXCEPT !.prsImported = loc.total], hist)
              ELSE listPullRequests(context, [loc EXCEPT !.page = @ + 1], hist)
       ELSE \E pr \in PrItems :
              IF throwIfAborted(context) THEN ThrowAborted(context, hist)
              ELSE ensureUserProfileCall(context, [loc EXCEPT !.cur = pr], hist)

\* Top of the commit-list loop, inside the try block (lines 870-878)
listPullRequestCommits(c, l, h) ==
  IF throwIfAborted(c)
    THEN RaiseAt("listPullRequestCommits", "ImportAbortedError", c, l, Observe(h, c))
    ELSE withRateLimit("listPullRequestCommits", c, l, h)

\* if (context.api.listPullRequestCommits) ... (lines 863-868)
prCommits ==
  /\ pc = "prCommits"
  /\ \E supported \in Reads(context.api.listPullRequestCommits, BOOLEAN) :
       LET c2 == [context EXCEPT !.api.listPullRequestCommits = <<supported>>]
       IN IF supported
            THEN listPullRequestCommits(c2, [loc EXCEPT !.commitPage = 1, !.hasShas = FALSE],
                                        hist)
            ELSE Goto("prConvert", c2, [loc EXCEPT !.hasShas = FALSE], hist)

\* A page of commits arrived (lines 879-885)
listPullRequestCommitsReturn ==
  /\ pc = "listPullRequestCommits"
  /\ loc.phase = "op"
  /\ \E n \in 0..PerPage :
       LET l2 == [Returned(loc) EXCEPT !.hasShas = @ \/ n > 0]
       IN IF n < PerPage THEN Goto("prConvert", context, l2, hist)
          ELSE /\ loc.commitPage < MaxCommitPages
               /\ listPullRequestCommits(context, [l2 EXCEPT !.commitPage = @ + 1], hist)

\* A pull request event that is never given the bridged-identity tag.
PrEventUntagged(c, pr) ==
  [Event("pr", c.currentTimestamp, pr.num, pr.author, "", NoValue)
     EXCEPT !.a = c.repoAddr]

PrEvent(c, pr) ==
  [Event("pr", c.currentTimestamp, pr.num, pr.author,
         addBridgedPTags(c.platform[1], pr.author, c.bridgedNostrPubkeys), NoValue)
     EXCEPT !.a = c.repoAddr]

\* A pull request loop that records the id before it knows whether the
\* converter produced an event to sign.
prConvertRecordingFirst ==
  /\ pc = "prConvert"
  /\ \E converted \in env.converts :
       LET recorded == [context EXCEPT
                          !.prEventIdMap =
                            Put(@, loc.cur.num, EventId(PrEvent(context, loc.cur)))]
       IN IF converted
            THEN EnqueueThen(PrEvent(context, loc.cur), "prPublished", recorded,
                             loc, Called(Did(hist, "convert"), "onSignEvent"))
            ELSE Goto("prItem", recorded,
                      [loc EXCEPT !.remaining = @ - 1, !.cur = NoItem, !.commitPage = 0,
                                  !.hasShas = FALSE],
                      Did(hist, "convert"))

\* Convert, tag and sign the pull request, record its id, enqueue (lines 893-921)
prConvert ==
  /\ pc = "prConvert"
  /\ \E converted \in env.converts :
       IF converted
         THEN EnqueueThen(PrEvent(context, loc.cur), "prPublished",
                          [context EXCEPT
                             !.prEventIdMap =
                               Put(@, loc.cur.num, EventId(PrEvent(context, loc.cur)))],
                          loc, Called(Did(hist, "convert"), "onSignEvent"))
         ELSE Goto("prItem", context,
                   [loc EXCEPT !.remaining = @ - 1, !.cur = NoItem, !.commitPage = 0,
                               !.hasShas = FALSE],
                   Did(hist, "convert"))

\* After await publishEventBatched (lines 923-928)
prPublished ==
  /\ pc = "prPublished"
  /\ Goto("prItem",
          [context EXCEPT !.currentTimestamp = @ + 1, !.prsPublished = loc.total + 1],
          [loc EXCEPT !.total = @ + 1, !.remaining = @ - 1, !.cur = NoItem, !.commitPage = 0,
                      !.hasShas = FALSE],
          hist)

\* ------------------------------------------------------------ comments
MaxCommentId == 1         \* provider comment ids are 1..MaxCommentId
\* A comment of the bulk endpoint names its parent number; MaxNum + 1 is a number
\* no imported issue or pull request has.
BulkComments ==
  [num : 1..(MaxNum + 1), author : env.users, nStatus : {0}, cid : 1..MaxCommentId,
   parent : {NoValue}]
\* A comment of listIssueComments / listPullRequestComments belongs to the parent asked for.
ParentComments(parent) ==
  [num : {parent}, author : env.users, nStatus : {0}, cid : 1..MaxCommentId, parent : {NoValue}]

CommentEvent(c, comment) ==
  Event("comment", c.currentTimestamp, comment.cid, comment.author,
        addBridgedPTags(c.platform[1], comment.author, c.bridgedNostrPubkeys), comment.parent)

\* const isPrComment = prNumbers.has(...); const isIssueComment = issueNumbers.has(...)
isPrComment(c, comment) == comment.num \in DOMAIN c.prEventIdMap
isIssueComment(c, comment) == comment.num \in DOMAIN c.issueEventIdMap

\* A parent lookup that anchors a comment of an unknown number to a made-up id.
parentEventIdAnyway(c, comment) ==
  IF isPrComment(c, comment) THEN Get(c.prEventIdMap, comment.num)
  ELSE IF isIssueComment(c, comment) THEN Get(c.issueEventIdMap, comment.num)
  ELSE <<"unknown", 0, comment.num, "">>

\* Lines 1003-1014 of the bulk loop: the parent event id of a comment, undefined
\* when its number belongs to no imported issue or pull request.
parentEventId(c, comment) ==
  IF ~isPrComment(c, comment) /\ ~isIssueComment(c, comment) THEN NoValue
  ELSE IF isPrComment(c, comment) THEN Get(c.prEventIdMap, comment.num)
  ELSE Get(c.issueEventIdMap, comment.num)

\* Top of the page loop of the bulk strategy (lines 974-984)
listAllIssueComments(c, l, h) ==
  IF throwIfAborted(c) THEN ThrowAborted(c, h)
  ELSE withRateLimit("listAllIssueComments", c, l, h)

\* Top of the page loop of one parent in the fallback strategy (1094-1102, 1176-1184)
listParentComments(c, l, h) ==
  IF throwIfAborted(c) THEN ThrowAborted(c, h)
  ELSE withRateLimit(IF l.stage = "issueComments" THEN "listIssueComments"
                     ELSE "listPullRequestComments", c, l, h)

\* A comment stage that passes its cancellation checkpoint before it looks at
\* the two sets of numbers.
mirrorCommentsCheckingFirst ==
  /\ pc = "mirrorComments"
  /\ \E mirror \in BOOLEAN :
       LET c2 == [context EXCEPT !.config.mirrorComments = <<mirror>>]
           issueNumbers == DOMAIN context.issueEventIdMap
           prNumbers == DOMAIN context.prEventIdMap
           l2 == [loc EXCEPT !.page = 1, !.total = 0, !.commentEventMap = <<>>]
       IN IF ~mirror THEN Goto("publishProfileEvents", c2, loc, hist)
          ELSE IF throwIfAborted(c2) THEN ThrowAborted(c2, hist)
          ELSE IF issueNumbers = {} /\ prNumbers = {}
            THEN Goto("publishProfileEvents", c2, loc, hist)
          ELSE \E bulk \in BOOLEAN :
                 LET c3 == [c2 EXCEPT !.api.listAllIssueComments = <<bulk>>]
                 IN IF bulk
                      THEN listAllIssueComments(c3, [l2 EXCEPT !.stage = "comments"], hist)
                      ELSE Goto("nextParent", c3,
                                [l2 EXCEPT !.stage = "issueComments",
                                           !.parents = issueNumbers], hist)

\* if (config.mirrorComments) ... (1519-1523), fetchAndPublishCommentsStreaming (955-971)
mirrorComments ==
  /\ pc = "mirrorComments"
  /\ \E mirror \in BOOLEAN :
       LET c2 == [context EXCEPT !.config.mirrorComments = <<mirror>>]
           issueNumbers == DOMAIN context.issueEventIdMap
           prNumbers == DOMAIN context.prEventIdMap
           l2 == [loc EXCEPT !.page = 1, !.total = 0, !.commentEventMap = <<>>]
       IN IF ~mirror THEN Goto("publishProfileEvents", c2, loc, hist)
          ELSE IF issueNumbers = {} /\ prNumbers = {}
            THEN Goto("publishProfileEvents", c2, loc, hist)
          ELSE IF throwIfAborted(c2) THEN ThrowAborted(c2, hist)
          ELSE \E bulk \in BOOLEAN :
                 LET c3 == [c2 EXCEPT !.api.listAllIssueComments = <<bulk>>]
                 IN IF bulk
                      THEN listAllIssueComments(c3, [l2 EXCEPT !.stage = "comments"], hist)
                      ELSE Goto("nextParent", c3,
                                [l2 EXCEPT !.stage = "issueComments",
                                           !.parents = issueNumbers], hist)

\* A page of the bulk endpoint arrived (lines 986-996, 1077)
listAllIssueCommentsReturn ==
  /\ pc = "listAllIssueComments"
  /\ loc.phase = "op"
  /\ \E sinceDate \in Reads(context.config.sinceDate, env.sinceDate) :
     \E p \in Pages(sinceDate, loc) :
       LET c2 == [context EXCEPT !.config.sinceDate = <<sinceDate>>]
           l2 == [Returned(loc) EXCEPT !.pageLen = p.n,
                             !.remaining = filtered(p), !.fuel = @ - p.n]
           h2 == Listed(hist, "comment", p)
       IN IF p.n = 0
            THEN FlushThen("publishProfileEvents", c2,
                           [l2 EXCEPT !.commentsImported = loc.total], h2)
            ELSE Goto("commentItem", c2, l2, h2)

\* The next comment of a bulk page (999-1024), or the end of the page (1064-1073)
commentItem ==
  /\ pc = "commentItem"
  /\ IF loc.remaining = 0
       THEN IF loc.pageLen < PerPage
              THEN FlushThen("publishProfileEvents", context,
                             [loc EXCEPT !.commentsImported = loc.total], hist)
              ELSE listAllIssueComments(context, [loc EXCEPT !.page = @ + 1], hist)
       ELSE \E comment \in BulkComments :
              IF throwIfAborted(context) THEN ThrowAborted(context, hist)
              ELSE IF parentEventId(context, comment) = NoValue
                THEN Goto("commentItem", context,
                          [loc EXCEPT !.remaining = @ - 1, !.cur = comment], hist)
              ELSE ensureUserProfileCall(
                     context,
                     [loc EXCEPT !.cur = [comment EXCEPT
                                            !.parent = parentEventId(context, comment)]],
                     hist)

\* for (const issueNumber of issueNumbers) / for (const prNumber of prNumbers):
\* the next parent (1081-1091, 1163-1173), the end of the loops (1243-1246)
nextParent ==
  /\ pc = "nextParent"
  /\ IF loc.parents = {}
       THEN IF loc.stage = "issueComments"
              THEN Goto("nextParent", context,
                        [loc EXCEPT !.stage = "prComments",
                                    !.parents = DOMAIN context.prEventIdMap], hist)
              ELSE FlushThen("publishProfileEvents", context,
                             [loc EXCEPT !.commentsImported = loc.total], hist)
       ELSE \E parent \in loc.parents :
              IF throwIfAborted(context) THEN ThrowAborted(context, hist)
              ELSE listParentComments(context,
                                      [loc EXCEPT !.parents = @ \ {parent}, !.parent = parent,
                                                  !.page = 1], hist)

\* A page of one parent's comments arrived (lines 1104-1106, 1186-1188)
listParentCommentsReturn ==
  /\ pc \in {"listIssueComments", "listPullRequestComments"}
  /\ loc.phase = "op"
  /\ \E sinceDate \in Reads(context.config.sinceDate, env.sinceDate) :
     \E p \in Pages(sinceDate, loc) :
       LET c2 == [context EXCEPT !.config.sinceDate = <<sinceDate>>]
           l2 == [Returned(loc) EXCEPT !.pageLen = p.n,
                             !.remaining = filtered(p), !.fuel = @ - p.n]
           h2 == Listed(hist, "comment", p)
       IN IF p.n = 0
            THEN Goto("nextParent", c2, [l2 EXCEPT !.commentEventMap = <<>>], h2)
            ELSE Goto("parentCommentItem", c2, l2, h2)

\* A fallback loop that goes on to the next parent without clearing the map.
parentCommentItemKeepingMap ==
  /\ pc = "parentCommentItem"
  /\ IF loc.remaining = 0
       THEN IF loc.pageLen < PerPage
              THEN Goto("nextParent", context, loc, hist)
              ELSE listParentComments(context, [loc EXCEPT !.page = @ + 1], hist)
       ELSE \E comment \in ParentComments(loc.parent) :
              LET parentId == IF loc.stage = "issueComments"
                                THEN Get(context.issueEventIdMap, loc.parent)
                                ELSE Get(context.prEventIdMap, loc.parent)
              IN ensureUserProfileCall(
                   context, [loc EXCEPT !.cur = [comment EXCEPT !.parent = parentId]], hist)

\* The next comment of a parent's page (1109-1117, 1190-1198), or its end
\* (1151-1159, 1232-1239)
parentCommentItem ==
  /\ pc = "parentCommentItem"
  /\ IF loc.remaining = 0
       THEN IF loc.pageLen < PerPage
              THEN Goto("nextParent", context, [loc EXCEPT !.commentEventMap = <<>>], hist)
              ELSE listParentComments(context, [loc EXCEPT !.page = @ + 1], hist)
       ELSE \E comment \in ParentComments(loc.parent) :
              LET parentId == IF loc.stage = "issueComments"
                                THEN Get(context.issueEventIdMap, loc.parent)
                                ELSE Get(context.prEventIdMap, loc.parent)
              IN ensureUserProfileCall(
                   context, [loc EXCEPT !.cur = [comment EXCEPT !.parent = parentId]], hist)

\* Convert, tag, sign and enqueue the comment (1027-1052, 1119-1142, 1200-1223)
commentConvert ==
  /\ pc = "commentConvert"
  /\ \E converted \in env.converts :
       IF converted
         THEN EnqueueThen(CommentEvent(context, loc.cur), "commentPublished", context, loc,
                          Called(Did(hist, "convert"), "onSignEvent"))
         ELSE Goto(IF loc.stage = "comments" THEN "commentItem" ELSE "parentCommentItem",
                   context, [loc EXCEPT !.remaining = @ - 1, !.cur = NoItem],
                   Did(hist, "convert"))

\* After await publishEventBatched (1055-1059, 1144-1147, 1225-1228)
commentPublished ==
  /\ pc = "commentPublished"
  /\ Goto(IF loc.stage = "comments" THEN "commentItem" ELSE "parentCommentItem",
          [context EXCEPT !.currentTimestamp = @ + 1, !.commentsPublished = loc.total + 1],
          [loc EXCEPT !.total = @ + 1, !.remaining = @ - 1, !.cur = NoItem,
                      !.commentEventMap =
                        Put(@, loc.cur.cid, EventId(CommentEvent(context, loc.cur)))],
          hist)

\* ------------------------------------------------------------ profiles, final flush
\* publishProfileEvents up to its loop (lines 1344-1347)
publishProfileEvents ==
  /\ pc = "publishProfileEvents"
  /\ IF throwIfAborted(context) THEN ThrowAborted(context, hist)
     ELSE Goto("profileItem", context,
               [loc EXCEPT !.stage = "profiles", !.remaining = Len(context.profileEvents)], hist)

\* The next profile event (lines 1348-1357), or the final flush (1531)
profileItem ==
  /\ pc = "profileItem"
  /\ IF loc.remaining = 0 THEN FlushThen("complete", context, loc, hist)
     ELSE IF throwIfAborted(context) THEN ThrowAborted(context, hist)
     ELSE EnqueueThen(context.profileEvents[Len(context.profileEvents) - loc.remaining + 1],
                      "profileItem", context, [loc EXCEPT !.remaining = @ - 1], hist)

\* A result that reports the record of the ownership check instead of the
\* repository the run resolved.
completeWithOwnershipRecord ==
  /\ pc = "complete"
  /\ pc' = "done"
  /\ outcome' = [outcome EXCEPT
                   !.kind = "result",
                   !.result = [issuesImported |-> loc.issuesImported,
                               prsImported |-> loc.prsImported,
                               commentsImported |-> loc.commentsImported,
                               profilesCreated |-> Cardinality(context.userProfiles),
                               repo |-> Repo("checkRepoOwnership", FALSE)]]
  /\ isImporting' = FALSE
  /\ abortController' = 0
  /\ UNCHANGED <<env, options, aborted, runs, context, loc, hist>>

\* The result is assembled and returned; finally runs (lines 1534-1558, 1578-1581)
complete ==
  /\ pc = "complete"
  /\ pc' = "done"
  /\ outcome' = [outcome EXCEPT
                   !.kind = "result",
                   !.result = [issuesImported |-> loc.issuesImported,
                               prsImported |-> loc.prsImported,
                               commentsImported |-> loc.commentsImported,
                               profilesCreated |-> Cardinality(context.userProfiles),
                               repo |-> context.finalRepo]]
  /\ isImporting' = FALSE
  /\ abortController' = 0
  /\ UNCHANGED <<env, options, aborted, runs, context, loc, hist>>

\* ------------------------------------------------------------ specification
Next ==
  \/ importRepository
  \/ importRepositoryRejected
  \/ abortImport
  \/ initializeImportContext
  \/ validateTokenPermissionsReturn
  \/ checkRepoOwnershipReturn
  \/ forkRepoReturn
  \/ getRepoReturn
  \/ convertRepoEvents
  \/ signRepoAnnouncementReturn
  \/ signRepoStateReturn
  \/ publishRepoAnnouncementReturn
  \/ publishRepoStateReturn
  \/ operationRetry
  \/ waitReturn
  \/ throttleReturn
  \/ operationFail
  \/ flushReturn
  \/ fetchEventsReturn
  \/ gistReturn
  \/ ensureUserProfile
  \/ mirrorIssues
  \/ listIssuesReturn
  \/ issueItem
  \/ issueConvert
  \/ issuePublished
  \/ issueStatus
  \/ signStatusReturn
  \/ statusPublished
  \/ mirrorPullRequests
  \/ listPullRequestsReturn
  \/ prItem
  \/ prCommits
  \/ listPullRequestCommitsReturn
  \/ prConvert
  \/ prPublished
  \/ mirrorComments
  \/ listAllIssueCommentsReturn
  \/ commentItem
  \/ nextParent
  \/ listParentCommentsReturn
  \/ parentCommentItem
  \/ commentConvert
  \/ commentPublished
  \/ publishProfileEvents
  \/ profileItem
  \/ complete

Spec == Init /\ [][Next]_vars

\* ------------------------------------------------------------ properties
Done == pc = "done"
Completed == pc = "done" /\ outcome.kind = "result"
EndedByAbort == pc = "done" /\ hist.err = "ImportAbortedError"

\* The events the batched publisher handed to onPublishEvent (the two repo events
\* go to onPublishEvent directly, not through the queue).
IsRepoEvent(e) == e.kind \in {"announcement", "state"}
HandedByPublisher == SelectSeq(hist.published, LAMBDA e : ~IsRepoEvent(e))

\* C1: while a run is in flight no step starts another run or replaces the
\* controller (it is only cleared, by the run's own finally), and a call to
\* importRepository that is rejected leaves isImporting, the controller, the
\* abort flags, the position of the run, its context and everything it has
\* fetched or published as they were.
C1_RejectedCallChangesNothing ==
  [][isImporting =>
       /\ runs' = runs
       /\ abortController' \in {abortController, 0}
       /\ (abortController' = 0 => ~isImporting')
       /\ (outcome'.rejected /\ ~outcome.rejected =>
             /\ isImporting'
             /\ UNCHANGED <<abortController, aborted, pc, context, loc, hist>>)]_vars

\* A call was rejected while the run held an event in its queue.
C1_Witness ==
  /\ isImporting
  /\ outcome.rejected
  /\ context.eventQueue # <<>>
  /\ abortController = runs

\* C2: a run that ended because a checkpoint's cancellation error reached the
\* catch clause throws that ImportAbortedError itself, not a wrapping Error.
C2_AbortRethrownAsIs ==
  EndedByAbort => outcome.kind = "ImportAbortedError" /\ ~outcome.wrapped

\* An aborted run that had got as far as enqueuing an event.
C2_Witness ==
  /\ EndedByAbort
  /\ hist.observed
  /\ outcome.kind = "ImportAbortedError"
  /\ hist.enqueued # <<>>

\* C3: after the first checkpoint that observed the abort flag the run makes no
\* provider fetch, converts nothing, enqueues nothing and publishes nothing.
C3_FirstCheckpointUnwinds ==
  hist.observed => hist.afterObserved = {}

\* C4: when a run ended by abort, no event that was in the queue when a
\* checkpoint first raised the cancellation error has been handed to
\* onPublishEvent.
C4_QueuedEventsNotPublishedOnAbort ==
  EndedByAbort =>
    \A i \in DOMAIN hist.queueAtRaise :
      \A j \in DOMAIN hist.published : hist.published[j] # hist.queueAtRaise[i]

\* C5: a completed run returns with an empty queue, and what the batched
\* publisher handed to onPublishEvent is exactly what was enqueued: every
\* enqueued event once, in the order of the enqueues.
C5_CompleteRunPublishedEverything ==
  Completed =>
    /\ context.eventQueue = <<>>
    /\ HandedByPublisher = hist.enqueued

\* A completed run that flushed at the threshold and again at the end.
C5_Witness ==
  /\ Completed
  /\ context.batchSize = 2
  /\ Len(hist.enqueued) = 3

\* The places publishEventBatched returns to in the item loops.
AfterEnqueue == {"issuePublished", "statusPublished", "prPublished", "commentPublished"}
\* The places a pipeline or the run finalizes with flushEventQueue.
Finalizes ==
  {"listIssues", "listPullRequests", "prItem", "listAllIssueComments", "commentItem",
   "nextParent", "profileItem"}

\* The queue never holds more than b events, and fewer than b once
\* publishEventBatched has returned.
QueueBounded(b) ==
  /\ hist.peak <= b
  /\ Len(context.eventQueue) <= b
  /\ (pc \in AfterEnqueue => Len(context.eventQueue) < b)

EnqueueStep == Len(hist'.enqueued) > Len(hist.enqueued)
FlushStep == Len(hist'.published) > Len(hist.published) /\ pc' = "flushing"

\* C6 as stated: an enqueue flushes exactly when it brings the queue length to
\* batchSize, any other flush is a finalize, and the queue length stays within
\* batchSize, below it once publishEventBatched has returned.
C6_FlushAtBatchSize ==
  /\ [](pc \notin {"idle", "initializeImportContext"} => QueueBounded(context.batchSize))
  /\ [][/\ EnqueueStep => (FlushStep <=> Len(context.eventQueue) + 1 = context.batchSize)
        /\ FlushStep /\ ~EnqueueStep => pc \in Finalizes]_vars

\* C6, amended: an enqueue flushes exactly when it brings the queue length to
\* batchSize or more, any other flush is a finalize of a non-empty queue that
\* hands over the whole queue, and the queue length stays within
\* max(batchSize, 1), below it once publishEventBatched has returned.
C6_FlushAtOrAboveBatchSize ==
  /\ [](pc \notin {"idle", "initializeImportContext"} =>
          QueueBounded(Max(context.batchSize, 1)))
  /\ [][/\ EnqueueStep => (FlushStep <=> Len(context.eventQueue) + 1 >= context.batchSize)
        /\ FlushStep /\ ~EnqueueStep =>
             /\ pc \in Finalizes
             /\ context.eventQueue # <<>>
             /\ context'.eventQueue = <<>>
             /\ hist'.published = hist.published \o context.eventQueue]_vars

\* An enqueue has just brought the queue to batchSize = 2 and flushed it.
C6_Witness ==
  /\ pc = "flushing"
  /\ loc.flushRet \in AfterEnqueue
  /\ context.batchSize = 2
  /\ hist.peak = 2
  /\ context.eventQueue = <<>>

\* C7: in a completed run issueEventIdMap has as many entries as the result
\* counts imported issues, and every id in the map is the id of exactly one
\* enqueued event.
C7_IssueMapMatchesCount ==
  Completed =>
    /\ Cardinality(DOMAIN context.issueEventIdMap) = outcome.result.issuesImported
    /\ \A n \in DOMAIN context.issueEventIdMap :
         Cardinality({i \in DOMAIN hist.enqueued :
                        EventId(hist.enqueued[i]) = context.issueEventIdMap[n]}) = 1

\* C8: every comment event that was enqueued is anchored to an event id that
\* issueEventIdMap or prEventIdMap holds: no comment of a number that is in
\* neither map is converted, enqueued or published.
C8_OrphanCommentsSkipped ==
  \A i \in DOMAIN hist.enqueued :
    hist.enqueued[i].kind = "comment" =>
      hist.enqueued[i].parent \in
        Range(context.issueEventIdMap) \cup Range(context.prEventIdMap)

\* The bulk loop has just skipped a comment whose number is in neither map,
\* while the maps hold an imported parent.
C8_Witness ==
  /\ pc = "commentItem"
  /\ loc.cur.cid # 0
  /\ loc.cur.num \notin DOMAIN context.issueEventIdMap
  /\ loc.cur.num \notin DOMAIN context.prEventIdMap
  /\ DOMAIN context.issueEventIdMap \cup DOMAIN context.prEventIdMap # {}
  /\ \A i \in DOMAIN hist.enqueued : hist.enqueued[i].kind # "comment"

\* The key of the author whose lookup has just returned to ensureUserProfile.
LookupKey == getProfileMapKey(context.platform[1], loc.cur.author)
LookupReturned == pc = "ensureUserProfile"

\* A p-tag on an enqueued event is the 64-character pubkey that
\* bridgedNostrPubkeys holds for the event's author.
TagsComeFromBridgedKeys ==
  \A i \in DOMAIN hist.enqueued :
    LET e == hist.enqueued[i]
        key == getProfileMapKey(context.platform[1], e.author)
    IN e.ptag # "" =>
         /\ key \in DOMAIN context.bridgedNostrPubkeys
         /\ context.bridgedNostrPubkeys[key] = e.ptag
         /\ PubkeyLen(e.ptag) = PubkeyLength

\* A lookup leaves a pubkey in bridgedNostrPubkeys only when the gist it fetched
\* is owned by the username (compared in lower case) and the npub in it decodes
\* to the pubkey of the candidate profile.
BridgedOnlyIfVerified ==
  LookupReturned /\ LookupKey \in DOMAIN context.bridgedNostrPubkeys =>
    /\ loc.lookup.gist.ok
    /\ toLowerCase(loc.lookup.gist.owner) = toLowerCase(loc.cur.author)
    /\ nip19decode(loc.lookup.gist.npub) = loc.lookup.pubkey
    /\ context.bridgedNostrPubkeys[LookupKey] = loc.lookup.pubkey

\* The lookups that return before a candidate is asked for (lines 577-586).
ReturnsEarly == {"unsupportedPlatform", "noFetchSource"}

\* C9 as stated: a tag only for a verified author, and every lookup that ends
\* otherwise leaves the key in nip39CheckedKeys.
C9_TagOnlyIfVerifiedElseNegative ==
  /\ TagsComeFromBridgedKeys
  /\ BridgedOnlyIfVerified
  /\ (LookupReturned /\ loc.lookup.outcome # "verified" =>
        /\ LookupKey \notin DOMAIN context.bridgedNostrPubkeys
        /\ LookupKey \in context.nip39CheckedKeys)

\* C9, amended: a tag only for a verified author; a lookup that ends otherwise
\* attaches no tag, and leaves the key in nip39CheckedKeys unless it returned
\* early for an unsupported platform or a missing fetch source, which record
\* nothing.
C9_TagOnlyIfVerifiedElseNegativeUnlessEarly ==
  /\ TagsComeFromBridgedKeys
  /\ BridgedOnlyIfVerified
  /\ (LookupReturned /\ loc.lookup.outcome # "verified" =>
        /\ LookupKey \notin DOMAIN context.bridgedNostrPubkeys
        /\ (loc.lookup.outcome \notin ReturnsEarly => LookupKey \in context.nip39CheckedKeys)
        /\ (loc.lookup.outcome \in ReturnsEarly => LookupKey \notin context.nip39CheckedKeys))

\* An event of an author written "Bob" went out with the p-tag of the profile
\* whose gist is owned by that login.
C9_Witness ==
  /\ hist.enqueued # <<>>
  /\ hist.enqueued[1].ptag = "pkA"
  /\ hist.enqueued[1].author = "Bob"
  /\ context.nip39CheckedKeys = {}

\* C10: the events handed to onPublishEvent carry created_at values of the
\* counter that starts at importTimestamp - 3600: none below the seed, none
\* above the counter, and strictly increasing in the order they were issued.
C10_CreatedAtIsTheCounter ==
  \A j \in DOMAIN hist.published :
    /\ hist.published[j].created_at >= context.importTimestamp - StartOffset
    /\ hist.published[j].created_at <= context.currentTimestamp
    /\ \A i \in 1..(j - 1) : hist.published[i].created_at < hist.published[j].created_at

\* ------------------------------------------------------------ retry wrapper
\* A step that invokes the operation of a withRateLimit call.
OperationStarts == loc'.invoked > loc.invoked

\* A step that starts an attempt of the loop (throwIfAborted, then throttle).
AttemptStarts == loc'.phase = "throttle" /\ (loc.phase # "throttle" \/ pc' # pc)

\* A step that starts waitWithProgress.
WaitStarts == loc'.phase = "wait" /\ loc.phase # "wait"

\* C11: whatever fetches a run interleaves (issues, pull requests, commit lists,
\* comments, gist proofs), an operation is invoked only by the step that ends a
\* throttle, and that throttle was awaited for the (provider, method) pair of the
\* very call site whose operation starts: one throttle per invocation.
C11_OperationOnlyAfterThrottle ==
  [][OperationStarts =>
       /\ pc \in FetchSites
       /\ loc.phase = "throttle"
       /\ pc' = pc
       /\ ThrottlePair(pc', context') = ThrottlePair(pc, context)
       /\ loc'.invoked = loc.invoked + 1
       /\ loc'.invoked = loc'.attempt]_vars

\* A gist fetch is in flight in a GitHub run, between two listings of that run
\* whose pair ("github", "GET") is the pair of the gist fetch.
C11_Witness ==
  /\ pc = "gist" /\ loc.phase = "op" /\ loc.invoked = 1
  /\ ThrottlePair("gist", context) = ThrottlePair("listIssues", context)

\* C12: a failure the limiter sorts as fatal is never retried and never waited
\* for; when it is the first failure of the call the operation was invoked
\* exactly once, and the error that leaves withRateLimit is that very error.
C12_FatalErrorThrownAtOnce ==
  /\ \A i \in DOMAIN loc.retried : loc.retried[i].class # "fatal"
  /\ (Done /\ hist.err = "fatal") =>
       /\ loc.phase = "op"
       /\ hist.errAt = loc.invoked
       /\ loc.invoked = Len(loc.retried) + 1
       /\ (loc.retried = <<>> => loc.invoked = 1)
       /\ outcome.kind = "Error"

C12_Witness ==
  /\ Done /\ hist.err = "fatal"
  /\ loc.invoked = 1 /\ loc.retried = <<>>

C14_AbortCheckedBeforeAttemptAndWait ==
  [][(AttemptStarts \/ WaitStarts) => ~throwIfAborted(context)]_vars

\* ------------------------------------------------------------ paging
\* C15: the issues pipeline sends no list-issues request after a page shorter
\* than the page size: a request for page 2 or later is only ever in flight
\* when the page before it was full.
C15_NoRequestAfterShortPage ==
  ~(/\ pc = "listIssues" /\ loc.phase = "op"
    /\ loc.page > 1
    /\ loc.pageLen < PerPage)

\* ------------------------------------------------------------ fork guard
\* config.forkRepo is read for a non-owner only (line 428): it was read as false.
ForkingDisabledForNonOwner == context.config.forkRepo = <<FALSE>>

\* C16: once a non-owner's run has found forking disabled it is over, with the
\* fork-required error (wrapped by the catch of importRepository); the only
\* provider operations it invoked are the token validation and the ownership
\* check, it called onSignEvent for nothing and handed no event to the queue or
\* to onPublishEvent.
C16_ForkRequiredEndsRun ==
  ForkingDisabledForNonOwner =>
    /\ Done
    /\ hist.err = "ForkRequired" /\ outcome.kind = "Error"
    /\ ~isImporting
    /\ hist.calls = {"validateTokenPermissions", "checkRepoOwnership"}
    /\ hist.enqueued = <<>> /\ hist.published = <<>>
    /\ context.eventQueue = <<>>

C16_Witness ==
  /\ ForkingDisabledForNonOwner
  /\ Done /\ hist.err = "ForkRequired"

\* ------------------------------------------------------------ profiles
\* The profile events of a user among the events handed to the queue.
ProfilesEnqueued(username) ==
  SelectSeq(hist.enqueued, LAMBDA e : e.kind = "profile" /\ e.author = username)

\* The item pipelines have called ensureUserProfile for the author of loc.cur
\* and it has returned.
AuthorSeen == pc \in {"issueConvert", "prCommits", "commentConvert"}

\* C17: a profile is generated and set at most once per (platform, username)
\* key, so no entry is ever set a second time; every author whose item went
\* through ensureUserProfile has an entry; the profile map and the profile
\* events hold exactly the keys generated; at most one profile event per author
\* is enqueued, and exactly one once the run has completed.
C17_OneProfilePerAuthor ==
  /\ \A i, j \in DOMAIN hist.created : hist.created[i] = hist.created[j] => i = j
  /\ context.userProfiles = Range(hist.created)
  /\ Len(context.profileEvents) = Len(hist.created)
  /\ AuthorSeen => getProfileMapKey(context.platform[1], loc.cur.author) \in context.userProfiles
  /\ \A key \in context.userProfiles :
       /\ Len(ProfilesEnqueued(key[2])) <= 1
       /\ Completed => Len(ProfilesEnqueued(key[2])) = 1
  /\ \A u \in Users : ProfilesEnqueued(u) # <<>> =>
       \E platform \in Platforms : getProfileMapKey(platform, u) \in context.userProfiles

\* A completed run that imported two items by the same author.
C17_Witness ==
  /\ Completed
  /\ outcome.result.issuesImported + outcome.result.prsImported = 2
  /\ Cardinality(context.userProfiles) = 1
  /\ Len(ProfilesEnqueued("alice")) = 1

\* A completed run that imported items by two authors.
C17_TwoAuthors ==
  /\ Completed
  /\ Cardinality(context.userProfiles) = 2
  /\ Len(ProfilesEnqueued("alice")) = 1 /\ Len(ProfilesEnqueued("Bob")) = 1

\* ------------------------------------------------------------ stages
\* Where the run is suspended, by the function of importRepository's try block
\* that is executing (lines 1455-1531).
SetupPcs ==
  {"initializeImportContext", "validateTokenPermissions", "checkRepoOwnership", "forkRepo",
   "getRepo", "convertRepoEvents"}
RepoEventPcs ==
  {"signRepoAnnouncement", "signRepoState", "publishRepoAnnouncement", "publishRepoState"}
IssuePcs ==
  {"listIssues", "issueItem", "issueConvert", "issuePublished", "issueStatus", "signStatus",
   "statusPublished"}
PrPcs == {"listPullRequests", "prItem", "prCommits", "listPullRequestCommits", "prConvert",
          "prPublished"}
CommentPcs ==
  {"listAllIssueComments", "commentItem", "nextParent", "listIssueComments",
   "listPullRequestComments", "parentCommentItem", "commentConvert", "commentPublished"}
ProfilePcs == {"profileItem"}

\* 1 Validating and resolving the repo, 2 PublishingRepoEvents, 3 StreamingIssues,
\* 4 StreamingPRs, 5 StreamingComments, 6 PublishingProfiles, 7 FinalFlush,
\* 8 Complete, 9 returned or thrown.  A run that is between two pipelines, in a
\* profile lookup or in a flush is in the stage it entered last.
StageNo ==
  CASE pc = "idle" -> 0
    [] pc \in SetupPcs -> 1
    [] pc \in RepoEventPcs -> 2
    [] pc \in IssuePcs -> 3
    [] pc \in PrPcs -> 4
    [] pc \in CommentPcs -> 5
    [] pc \in ProfilePcs -> 6
    [] pc = "complete" -> 8
    [] pc = "done" -> 9
    [] pc = "flushing" /\ loc.flushRet = "complete" -> 7
    [] OTHER -> CASE loc.stage = "" -> 2
                  [] loc.stage = "issues" -> 3
                  [] loc.stage = "prs" -> 4
                  [] loc.stage = "profiles" -> 6
                  [] OTHER -> 5

\* A pipeline whose mirror flag was read as off was not entered and sent no
\* request, one whose flag was read as on has run before any later stage, and
\* the run completes only after the profile stage.
StagesMatchFlags ==
  /\ context.config.mirrorIssues = <<FALSE>> =>
       StageNo # 3 /\ "listIssues" \notin hist.calls /\ Len(context.issueEventIdMap) = 0
  /\ context.config.mirrorPullRequests = <<FALSE>> =>
       StageNo # 4 /\ "listPullRequests" \notin hist.calls /\ Len(context.prEventIdMap) = 0
  /\ context.config.mirrorComments = <<FALSE>> =>
       StageNo # 5 /\ hist.calls \cap {"listAllIssueComments", "listIssueComments",
                                       "listPullRequestComments"} = {}
  /\ (StageNo \in 4..8 /\ context.config.mirrorIssues = <<TRUE>>) =>
       "listIssues" \in hist.calls
  /\ (StageNo \in 5..8 /\ context.config.mirrorPullRequests = <<TRUE>>) =>
       "listPullRequests" \in hist.calls
  /\ StageNo \in 3..8 => "onSignEvent" \in hist.calls
  /\ StageNo \in 7..8 => loc.stage = "profiles"
  /\ Completed => loc.stage = "profiles"

\* A step of the run in flight (not the start of the next run).
RunStep == runs' = runs

\* C18: a run never goes back to an earlier stage, so each stage is entered at
\* most once and in the order of the list; a pipeline whose flag is off is
\* skipped; an error that leaves a stage ends the run in that very step; and once
\* a checkpoint has raised the cancellation error the run enters no later stage
\* before it ends.
C18_StagesInOrder ==
  /\ []StagesMatchFlags
  /\ [][RunStep =>
          /\ StageNo' >= StageNo
          /\ (hist'.err # hist.err => pc' = "done" /\ ~isImporting')
          /\ (hist.observed => StageNo' \in {StageNo, 9})
          /\ (pc' = "done" /\ pc # "done" =>
                \/ hist'.err # "" /\ outcome'.kind \in {"Error", "ImportAbortedError"}
                \/ hist'.err = "" /\ StageNo = 8 /\ outcome'.kind = "result")]_vars

\* A run completed after streaming issues and comments, with pull requests off.
C18_Witness ==
  /\ Completed
  /\ context.config.mirrorIssues = <<TRUE>>
  /\ context.config.mirrorPullRequests = <<FALSE>>
  /\ context.config.mirrorComments = <<TRUE>>
  /\ outcome.result.issuesImported > 0 /\ outcome.result.commentsImported > 0
  /\ Len(ProfilesEnqueued("alice")) = 1

\* ------------------------------------------------------------ run isolation
\* Between runs the hook holds no controller; while a run is in flight the
\* controller abortImport reaches is the one the run's checkpoints consult; a
\* run that has ended has released the hook, and the host can start another.
HookReleased ==
  /\ ~isImporting => abortController = 0
  /\ isImporting => abortController = runs /\ context.abortController = abortController
  /\ isImporting <=> pc \notin {"idle", "done"}
  /\ (Done /\ runs < env.maxRuns) => ENABLED importRepository

\* C19: whenever a run has ended, however it ended, isImporting is false and
\* importRepository is accepted again; the step that starts a run starts it with
\* an empty context (ID maps, profile maps, identity caches, event queue,
\* counters) and a new controller whose flag is not set, whatever was aborted
\* before; and abortImport sets the flag of the controller of the run in flight
\* only, and of none when no run is in flight.
C19_RunsAreIsolated ==
  /\ []HookReleased
  /\ [][/\ runs' # runs =>
             /\ ~isImporting /\ isImporting'
             /\ runs' = runs + 1
             /\ abortController' = runs' /\ abortController' \notin aborted'
             /\ context' = [NoContext EXCEPT !.abortController = abortController']
             /\ loc' = [NoLoc EXCEPT !.fuel = env.items]
             /\ hist' = NoHist
        /\ aborted' # aborted =>
             /\ isImporting
             /\ aborted' = aborted \cup {abortController}
             /\ UNCHANGED <<pc, context, loc, hist, outcome, isImporting, abortController>>
        /\ ~isImporting /\ runs' = runs => aborted' = aborted]_vars

\* The second run of a hook has completed although the first one was aborted.
C19_Witness ==
  /\ runs = 2
  /\ Completed
  /\ aborted = {1}

\* ------------------------------------------------------------ EventIO
\* A hook constructed with an EventIO and neither onSignEvent nor onPublishEvent.
EventIOOnly == options.eventIO /\ ~options.onSignEvent /\ ~options.onPublishEvent

\* C20: the run of a hook constructed with only an EventIO does not fail for
\* want of the onSignEvent or onPublishEvent callback, so that it can get
\* through PublishingRepoEvents as the run of a hook with the two callbacks does.
C20_EventIOAloneSuffices ==
  EventIOOnly => hist.err \notin {"EventIOCannotSign", "PublisherRequired"}

\* No run of a hook with only an EventIO gets past publishRepoEvents.
EventIOOnlyNeverPublishes ==
  EventIOOnly => StageNo \notin 3..8 /\ ~Completed /\ hist.published = <<>>

\* A hook with the two callbacks and no EventIO completes a run.
CallbacksOnlyCompletes ==
  Completed /\ ~options.eventIO /\ options.onSignEvent /\ options.onPublishEvent

\* ------------------------------------------------------------ flush
\* The batch a step hands to the publish callback: the queue as the step found
\* it, with the event the step pushed, if it pushed one.
BatchOfStep ==
  IF Len(hist'.enqueued) > Len(hist.enqueued)
    THEN Append(context.eventQueue, hist'.enqueued[Len(hist'.enqueued)])
    ELSE context.eventQueue

\* C21: a step that starts a flush hands every event of the queue, once and in
\* order, to the publish callback and leaves the queue empty; while the flush is
\* awaited the queue stays empty; and the flush returns to its caller whether
\* or not a publish rejected, leaving the context (queue, maps, counters), the
\* error and the outcome of the run as they were.
C21_FlushSettlesWhateverThePublishes ==
  /\ [](pc = "flushing" => context.eventQueue = <<>> /\ ~Done)
  /\ [][/\ (pc' = "flushing" /\ pc # "flushing") =>
             /\ BatchOfStep # <<>>
             /\ hist'.published = hist.published \o BatchOfStep
             /\ context'.eventQueue = <<>>
        /\ (pc = "flushing" /\ pc' # pc) =>
             /\ pc' = loc.flushRet
             /\ context' = context
             /\ outcome' = outcome
             /\ hist'.err = hist.err /\ hist'.published = hist.published
             /\ isImporting']_vars

\* A run completed and counted its issue although a publish of a batch rejected.
C21_Witness ==
  /\ Completed
  /\ hist.publishRejected
  /\ outcome.result.issuesImported = 1
  /\ \E i \in DOMAIN hist.published : hist.published[i].kind = "issue"

\* ------------------------------------------------------------ lookups
LookupPcs == {"fetchEvents", "gist"}
ItemKinds == {"issue", "pr", "comment"}
LastEnqueued == hist'.enqueued[Len(hist'.enqueued)]

\* C22: no proof source (fetchEvents, the gist fetch) is asked twice about the
\* same key in a run; whatever a lookup ends with, it returns to
\* ensureUserProfile, which creates the profile and returns to the item loop,
\* and the error of the run is not touched; and the event then enqueued for the
\* item of that author carries no p-tag unless the key was verified.
C22_LookupOncePerKeyAndNeverFatal ==
  /\ [](\A i, j \in DOMAIN hist.queried : hist.queried[i] = hist.queried[j] => i = j)
  /\ [](pc \in LookupPcs => LookupKeyOf(context, loc) \notin context.userProfiles)
  /\ [][/\ (pc \in LookupPcs /\ pc' \notin LookupPcs) =>
             /\ pc' = "ensureUserProfile"
             /\ hist'.err = hist.err /\ isImporting'
        /\ (pc = "ensureUserProfile" /\ pc' # pc) =>
             /\ pc' = AfterProfile(loc.stage)
             /\ loc'.cur = loc.cur
             /\ LookupKeyOf(context, loc) \in context'.userProfiles
             /\ hist'.err = hist.err /\ isImporting'
        /\ (EnqueueStep /\ LastEnqueued.kind \in ItemKinds) =>
             /\ LastEnqueued.author = loc.cur.author
             /\ LookupKeyOf(context, loc) \in context.userProfiles
             /\ (LookupKeyOf(context, loc) \notin DOMAIN context.bridgedNostrPubkeys
                   => LastEnqueued.ptag = "")]_vars

\* The second item of an author was enqueued without a tag, after the one lookup
\* made for that author (relay and gist asked once each) had ended negative.
C22_Witness ==
  /\ Len(hist.enqueued) = 2
  /\ \A i \in 1..2 : /\ hist.enqueued[i].kind \in ItemKinds
                     /\ hist.enqueued[i].author = "alice"
                     /\ hist.enqueued[i].ptag = ""
  /\ hist.queried = <<<<"fetchEvents", getProfileMapKey("github", "alice")>>,
                      <<"gist", getProfileMapKey("github", "alice")>>>>
  /\ getProfileMapKey("github", "alice") \in context.nip39CheckedKeys

\* ------------------------------------------------------------ counter
\* The events a run that has got past publishRepoEvents has produced: the two
\* repo events and every event handed to the queue (issues, statuses, pull
\* requests, comments, profiles).
EventsProduced == 2 + Len(hist.enqueued)

\* The counter never decreases within a run.
CounterNeverDecreases ==
  [][RunStep => context'.currentTimestamp >= context.currentTimestamp]_vars

\* C23: when a run has completed, the logical timestamp counter stands at its
\* seed plus the number of events the run produced: it was advanced exactly
\* once per event.
C23_CounterAdvancedOncePerEvent ==
  Completed => context.currentTimestamp = context.startTimestamp + EventsProduced

\* What the counter does count: the item and status events.
CounterCountsItemEvents ==
  Completed =>
    context.currentTimestamp =
      context.startTimestamp
        + Len(SelectSeq(hist.enqueued, LAMBDA e : e.kind \in ItemKinds \cup {"status"}))

\* The id the map m holds for number n is the id of an event of that kind
\* and number that was signed and handed to the queue.
RecordedInQueue(m, kind) ==
  \A n \in DOMAIN m :
    \E i \in DOMAIN hist.enqueued :
      /\ hist.enqueued[i].kind = kind
      /\ hist.enqueued[i].num = n
      /\ EventId(hist.enqueued[i]) = m[n]

\* Every comment event is anchored to the id of an issue or pull request
\* event that entered the queue before it.
CommentsAnchored ==
  \A j \in DOMAIN hist.enqueued :
    hist.enqueued[j].kind = "comment" =>
      \E i \in 1..(j - 1) :
        /\ hist.enqueued[i].kind \in {"issue", "pr"}
        /\ EventId(hist.enqueued[i]) = hist.enqueued[j].parent

\* C24: every entry of issueEventIdMap and prEventIdMap maps a number to the
\* id of an event that was signed and has entered the event queue, and every
\* comment the comment stage produces is anchored to such an id.
C24_MapEntriesAreQueuedEvents ==
  /\ RecordedInQueue(context.issueEventIdMap, "issue")
  /\ RecordedInQueue(context.prEventIdMap, "pr")
  /\ CommentsAnchored

\* A comment was produced whose parent is a recorded pull request event.
C24_Witness ==
  /\ \E j \in DOMAIN hist.enqueued :
       /\ hist.enqueued[j].kind = "comment"
       /\ \E n \in DOMAIN context.prEventIdMap :
            hist.enqueued[j].parent = context.prEventIdMap[n]

\* getRepo is not called once a fork was created: it is called only while the
\* record of the ownership check is still the chosen target.
GetRepoNeverAfterFork ==
  pc = "getRepo" =>
    /\ context.finalRepo.ref = "checkRepoOwnership"
    /\ "forkRepo" \notin hist.calls

\* C26: getRepo is called only when the record returned by the ownership
\* check is still the chosen target and is partial.
C26_GetRepoOnlyForPartialRecord ==
  pc = "getRepo" => context.finalRepo = Repo("checkRepoOwnership", FALSE)

\* The list operations of the issue, pull request and comment stages.
ListSites ==
  {"listIssues", "listPullRequests", "listPullRequestCommits", "listAllIssueComments",
   "listIssueComments", "listPullRequestComments"}

\* The fork is the repository the run imports into.
ForkCreated == context.finalRepo # NoValue /\ context.finalRepo.ref = "forkRepo"

\* The events whose converter is handed context.repoAddr.
TakesRepoAddr(e) == e.kind \in {"issue", "status", "pr"}

\* C25: after a fork was created every list call is addressed to the owner and
\* repository parsed from the URL, while every event that carries a repository
\* address carries the fork's, and the result's repo metadata is the fork's.
C25_ListsFromOriginalEventsOnFork ==
  ForkCreated =>
    /\ \A r \in hist.addressed : r[1] \in ListSites => r[2] = parsed
    /\ \A i \in DOMAIN hist.enqueued :
         TakesRepoAddr(hist.enqueued[i]) =>
           hist.enqueued[i].a = <<"30617", "userPubkey", "repo-imported">>
    /\ outcome.kind = "result" => outcome.result.repo.fullName = <<"user", "repo-imported">>

\* A run that forked has listed issues, pull requests, commits and comments,
\* has produced an issue or pull request event, and has returned its result.
C25_Witness ==
  /\ ForkCreated
  /\ outcome.kind = "result"
  /\ {"listIssues", "listPullRequests", "listPullRequestCommits", "listPullRequestComments"}
       \subseteq {r[1] : r \in hist.addressed}
  /\ \E i \in DOMAIN hist.enqueued : hist.enqueued[i].kind = "pr"

\* The events of the kind the run has signed and enqueued so far.
Produced(kind) == Len(SelectSeq(hist.enqueued, LAMBDA e : e.kind = kind))

\* C27: with a since-date configured, the issues, pull requests and comments
\* that are signed and enqueued, counted, or recorded in an id map are never
\* more than the items the provider returned with a creation date at or after
\* the since-date: none of the earlier ones is processed, in every pipeline.
C27_NothingBeforeSinceDate ==
  context.config.sinceDate = <<TRUE>> =>
    /\ Produced("issue") <= hist.passed.issue
    /\ Produced("pr") <= hist.passed.pr
    /\ Produced("comment") <= hist.passed.comment
    /\ context.issuesPublished <= hist.passed.issue
    /\ context.prsPublished <= hist.passed.pr
    /\ context.commentsPublished <= hist.passed.comment
    /\ loc.issuesImported <= hist.passed.issue
    /\ loc.prsImported <= hist.passed.pr
    /\ loc.commentsImported <= hist.passed.comment
    /\ Cardinality(DOMAIN context.issueEventIdMap) <= hist.passed.issue
    /\ Cardinality(DOMAIN context.prEventIdMap) <= hist.passed.pr

\* The provider ignored the since parameter: it returned a comment created
\* before the since-date, the run dropped it and completed.
C27_Witness ==
  /\ context.config.sinceDate = <<TRUE>>
  /\ hist.early.comment > 0
  /\ Produced("comment") = 0
  /\ Produced("issue") + Produced("pr") > 0
  /\ outcome.kind = "result"

\* The commit-list sub-fetch of the current pull request goes on or ends at
\* the conversion of that same pull request; the run's outcome is untouched.
CommitFetchEndsAtConversion ==
  pc = "listPullRequestCommits" =>
    /\ pc' \in {"listPullRequestCommits", "prConvert"}
    /\ loc'.cur = loc.cur
    /\ outcome'.kind = outcome.kind
    /\ hist'.err = hist.err
    /\ hist'.commitsFailed # hist.commitsFailed =>
         pc' = "prConvert" /\ ~loc'.hasShas /\ loc.cur.num \in hist'.commitsFailed

\* The conversion signs and enqueues the pull request and records its id,
\* unless the converter yields no event for it.
ConversionEnqueuesAndRecords ==
  pc = "prConvert" /\ pc' # pc =>
    \/ pc' = "prItem" /\ hist'.enqueued = hist.enqueued
    \/ /\ pc' = "prPublished" \/ (pc' = "flushing" /\ loc'.flushRet = "prPublished")
       /\ hist'.enqueued = Append(hist.enqueued, PrEvent(context, loc.cur))
       /\ loc.cur.num \in DOMAIN context'.prEventIdMap
       /\ context'.prEventIdMap[loc.cur.num] = EventId(PrEvent(context, loc.cur))

\* Once enqueued the pull request is counted.
EnqueuedIsCounted ==
  pc = "prPublished" /\ pc' # pc =>
    /\ pc' = "prItem"
    /\ loc'.total = loc.total + 1
    /\ context'.prsPublished = loc.total + 1

\* C28: a failure of the commit-list sub-fetch of a pull request, on any page,
\* never fails the run or skips the pull request: it is converted without
\* commit data, signed, enqueued, recorded in prEventIdMap and counted.
C28_CommitFailureKeepsPullRequest ==
  [][CommitFetchEndsAtConversion /\ ConversionEnqueuesAndRecords /\ EnqueuedIsCounted]_vars

\* The commit list of a pull request failed, and the run completed with that
\* pull request enqueued, recorded and counted.
C28_Witness ==
  /\ outcome.kind = "result"
  /\ outcome.result.prsImported > 0
  /\ \E n \in hist.commitsFailed :
       /\ n \in DOMAIN context.prEventIdMap
       /\ \E i \in DOMAIN hist.enqueued :
            hist.enqueued[i].kind = "pr" /\ hist.enqueued[i].num = n

\* C29: within a run no provider fetch is started or in flight while a batch
\* flush is in progress, no two batches are being flushed at the same time,
\* and calls are in flight concurrently only as the publish calls of the one
\* batch being flushed.
C29_OneFetchOrOneBatchInFlight ==
  /\ Len(hist.flying) <= 1
  /\ hist.flying # <<>> <=> pc = "flushing"
  /\ pc \in FetchSites \cup LookupPcs => hist.flying = <<>>
  /\ pc = "flushing" => loc.phase = "" /\ loc.invoked = 0

\* A batch of two events is being flushed: its two publish calls are in flight.
C29_Witness ==
  /\ pc = "flushing"
  /\ options.onPublishEvent
  /\ Len(hist.flying) = 1
  /\ Len(hist.flying[1]) >= 2
  /\ "listIssues" \in hist.calls

\* The per-parent fallback strategy is running.
Fallback == loc.stage \in {"issueComments", "prComments"}

\* The event id of the parent whose comments the fallback loop is importing.
ParentIdNow ==
  IF loc.stage = "issueComments" THEN Get(context.issueEventIdMap, loc.parent)
  ELSE Get(context.prEventIdMap, loc.parent)

\* C30: in the per-parent fallback strategy the threading map is empty when
\* the sub-loop of a parent starts, and every entry it holds is the event of a
\* comment of the parent being imported: never entries of two parents.
C30_ThreadingMapIsPerParent ==
  Fallback =>
    /\ pc = "nextParent" => loc.commentEventMap = <<>>
    /\ pc \in {"listIssueComments", "listPullRequestComments"} /\ loc.page = 1 =>
         loc.commentEventMap = <<>>
    /\ \A k \in DOMAIN loc.commentEventMap :
         \E i \in DOMAIN hist.enqueued :
           /\ hist.enqueued[i].kind = "comment"
           /\ EventId(hist.enqueued[i]) = loc.commentEventMap[k]
           /\ hist.enqueued[i].parent = ParentIdNow

\* The sub-loop of a parent starts after a comment of another parent was
\* imported.
C30_Witness ==
  /\ Fallback
  /\ pc \in {"listIssueComments", "listPullRequestComments"}
  /\ loc.page = 1
  /\ loc.phase = "op"
  /\ \E i \in DOMAIN hist.enqueued :
       hist.enqueued[i].kind = "comment" /\ hist.enqueued[i].parent # ParentIdNow

\* The run has completed ownership, fork and metadata resolution and has not
\* yet returned or thrown.
Resolved == StageNo \in 2..8 \/ pc = "convertRepoEvents"

\* C31: once resolution has completed finalRepo is non-null and no later step
\* of the run changes it, and the repo of the result is that same value.
C31_FinalRepoFrozenAfterResolution ==
  [][(Resolved /\ RunStep) =>
       /\ context.finalRepo # NoValue
       /\ context'.finalRepo = context.finalRepo
       /\ outcome'.kind = "result" => outcome'.result.repo = context.finalRepo]_vars

\* A run on a forked repository went through issues and comments and returned
\* the fork's record.
C31_Witness ==
  /\ Completed
  /\ outcome.result.repo = context.finalRepo
  /\ context.finalRepo.ref = "forkRepo"
  /\ outcome.result.issuesImported > 0
  /\ outcome.result.commentsImported > 0

\* The token validation answered that the token is invalid or cannot read.
TokenRefused == hist.token # <<>> /\ hist.token # <<TRUE, TRUE>>

\* C32: when token validation reports the token invalid or without read
\* permission the run has failed with no ownership call, no fork, no metadata
\* fetch and nothing signed, enqueued or published.
C32_RefusedTokenEndsRunBeforeOwnership ==
  TokenRefused =>
    /\ pc = "done"
    /\ outcome.kind = "Error"
    /\ hist.calls = {"validateTokenPermissions"}
    /\ context.finalRepo = NoValue
    /\ hist.enqueued = <<>>
    /\ hist.published = <<>>

\* The token was valid but had no read permission, and the run has failed.
C32_Witness ==
  /\ hist.token = <<TRUE, FALSE>>
  /\ pc = "done"
  /\ outcome.kind = "Error"
  /\ ~isImporting

\* The current values of the notifications of the issues pipeline that carry one.
Currents == SelectSeq(hist.currents, LAMBDA v : v # <<>>)

\* C33: the current values notified during the issues pipeline are 1, 2, 3, ...
\* (start at 1, one more per issue, never less); each equals the number of
\* issues enqueued when it is notified; and the last one equals the
\* issuesImported count of the result.
C33_ProgressCountsIssues ==
  /\ [](/\ \A i \in DOMAIN Currents : Currents[i] = <<i>>
        /\ Len(Currents) \in {Produced("issue") - 1, Produced("issue")}
        /\ Completed => Len(Currents) = outcome.result.issuesImported)
  /\ [][Len(hist'.currents) > Len(hist.currents) /\ RunStep /\ pc # "mirrorIssues" =>
          hist'.currents[Len(hist'.currents)] = <<Produced("issue")>>]_vars

\* A run that imported two issues has notified the current values 1 and 2.
C33_Witness ==
  /\ Completed
  /\ outcome.result.issuesImported = 2
  /\ Currents = << <<1>>, <<2>> >>
  /\ hist.currents[1] = <<>>

\* The issue, pull request and comment events of the run.
ItemEvents == SelectSeq(hist.enqueued, LAMBDA e : e.kind \in ItemKinds)

\* The issue, pull request and comment events enqueued so far, as a set.
ItemEventSet == {e \in Range(hist.enqueued) : e.kind \in ItemKinds}

\* The profile keys of the authors whose events were enqueued so far.
KeysOfAuthorsSeen ==
  {getProfileMapKey(context.platform[1], e.author) : e \in ItemEventSet}

\* C34: all issue, pull request and comment events of one author carry the
\* same bridged-identity tag, or none of them carries one: the binding of a
\* key is made before the first event of its author and is never changed or
\* removed afterwards.
C34_TaggingConsistentPerAuthor ==
  /\ [](LET items == ItemEventSet
        IN \A x, y \in items : x.author = y.author => x.ptag = y.ptag)
  /\ [][RunStep /\ context'.bridgedNostrPubkeys # context.bridgedNostrPubkeys =>
          /\ \A k \in DOMAIN context.bridgedNostrPubkeys :
               /\ k \in DOMAIN context'.bridgedNostrPubkeys
               /\ context'.bridgedNostrPubkeys[k] = context.bridgedNostrPubkeys[k]
          /\ \A k \in DOMAIN context'.bridgedNostrPubkeys \ DOMAIN context.bridgedNostrPubkeys :
               k \notin KeysOfAuthorsSeen]_vars

\* Two events of one author both carry the tag of the author's verified binding.
C34_Witness ==
  /\ Len(ItemEvents) >= 2
  /\ ItemEvents[1].author = ItemEvents[2].author
  /\ ItemEvents[1].kind = "issue"
  /\ ItemEvents[2].kind = "pr"
  /\ ItemEvents[1].ptag # ""
  /\ ItemEvents[2].ptag = ItemEvents[1].ptag

\* C35: no key is both in bridgedNostrPubkeys and in nip39CheckedKeys, and no
\* step of a run removes or changes an entry of either cache.
C35_CachesDisjointAndGrowOnly ==
  /\ [](DOMAIN context.bridgedNostrPubkeys \cap context.nip39CheckedKeys = {})
  /\ [][RunStep =>
          /\ context.nip39CheckedKeys \subseteq context'.nip39CheckedKeys
          /\ DOMAIN context.bridgedNostrPubkeys \subseteq DOMAIN context'.bridgedNostrPubkeys
          /\ \A k \in DOMAIN context.bridgedNostrPubkeys :
               context'.bridgedNostrPubkeys[k] = context.bridgedNostrPubkeys[k]]_vars

\* A run recorded a verified binding, went on to further items and completed
\* with the key in the verified cache only.
C35_Witness ==
  /\ Completed
  /\ DOMAIN context.bridgedNostrPubkeys # {}
  /\ context.nip39CheckedKeys = {}
  /\ Len(hist.queried) >= 1
  /\ Len(ItemEvents) >= 2

\* The repo events handed to onPublishEvent so far, by kind.
RepoPublished == SelectSeq(hist.published, LAMBDA e : IsRepoEvent(e))

\* C36: a failure to sign or publish the repo announcement or the repo state
\* ends the run in error with no list request sent and nothing enqueued; while
\* the repo events are being signed and published nothing is enqueued or
\* listed; and the state event is handed to the publisher only after the
\* publish of the announcement has completed.
C36_RepoEventFailureIsFatal ==
  /\ hist.err = "RepoEventFailed" =>
       /\ pc = "done"
       /\ outcome.kind = "Error"
       /\ hist.enqueued = <<>>
       /\ hist.calls \cap ListSites = {}
  /\ pc \in RepoEventPcs => hist.enqueued = <<>> /\ hist.calls \cap ListSites = {}
  /\ pc \in {"signRepoAnnouncement", "signRepoState", "publishRepoAnnouncement"} =>
       \A i \in DOMAIN hist.published : hist.published[i].kind # "state"
  /\ Len(RepoPublished) >= 2 =>
       RepoPublished[1].kind = "announcement" /\ RepoPublished[2].kind = "state"

\* The publish of the announcement failed: the run is over, and the state
\* event was never handed to the publisher.
C36_Witness ==
  /\ hist.err = "RepoEventFailed"
  /\ pc = "done"
  /\ Len(hist.published) = 1
  /\ hist.published[1].kind = "announcement"

\* The batch b is the last thing handed to onPublishEvent.
HandedLast(b) ==
  LET n == Len(hist.published)
  IN Len(b) <= n /\ SubSeq(hist.published, n - Len(b) + 1, n) = b

\* C37: a run that is past the repo events has both the sign and the publish
\* callback, every event a flush took from the queue was handed to the publish
\* callback, and the eventIO branch of the status loop is never entered.
C37_CallbacksDefinedPastRepoEvents ==
  /\ StageNo \in 3..8 => options.onSignEvent /\ options.onPublishEvent
  /\ pc # "eventIOPublishStatus"
  /\ \A i \in DOMAIN hist.flying : options.onPublishEvent /\ HandedLast(hist.flying[i])
  /\ StageNo \in 3..9 /\ runs > 0 => HandedByPublisher \o context.eventQueue = hist.enqueued

\* A flush is handing an issue and its status event to the publish callback.
C37_Witness ==
  /\ pc = "flushing"
  /\ Len(hist.flying) = 1
  /\ HandedLast(hist.flying[1])
  /\ \E i \in DOMAIN hist.flying[1] : hist.flying[1][i].kind = "status"
  /\ options.onSignEvent /\ options.onPublishEvent

\* A full page of pull requests arrives in this step.
FullPrPageArrives ==
  /\ pc = "listPullRequests"
  /\ RunStep
  /\ hist'.passed.pr + hist'.early.pr = hist.passed.pr + hist.early.pr + PerPage

\* A full page of pull requests is followed by the request of the next page,
\* once its items are processed.
PrLoopGoesOnAfterFullPage ==
  [][(pc = "prItem" /\ loc.remaining = 0 /\ loc.pageLen = PerPage /\ pc' # pc) =>
       \/ pc' = "listPullRequests" /\ loc'.page = loc.page + 1
       \/ hist'.err = "ImportAbortedError"]_vars

\* C38: the pull request loop goes on until a page shorter than the page size
\* arrives: a full page is processed and followed by the next page also when
\* the since-date filter leaves none of its items.
C38_FilteredFullPageDoesNotStopPrLoop ==
  [][FullPrPageArrives => pc' = "prItem"]_vars

\* The comment events enqueued in this run.
CommentsEnqueued == {i \in DOMAIN hist.enqueued : hist.enqueued[i].kind = "comment"}

\* Two events of one provider comment: the same comment id, listed under the
\* same issue / pull request number.
SameProviderComment(x, y) == x.num = y.num /\ x.parent[3] = y.parent[3]

AnchoredToOneParent ==
  \A i, j \in CommentsEnqueued :
    SameProviderComment(hist.enqueued[i], hist.enqueued[j]) =>
      hist.enqueued[i].parent = hist.enqueued[j].parent

\* The bulk strategy anchors a comment to one parent, the pull request when the
\* number is in both maps.
BulkAnchorsToOneParent ==
  /\ context # NoContext /\ context.api.listAllIssueComments = <<TRUE>> => AnchoredToOneParent
  /\ pc = "commentConvert" /\ loc.stage = "comments" /\ isPrComment(context, loc.cur) =>
       loc.cur.parent = context.prEventIdMap[loc.cur.num]

\* C39: a provider comment is anchored to exactly one parent event: the events
\* enqueued in a run for one comment of one number all name the same parent, in
\* the bulk strategy and in the per-parent fallback, also when the number is in
\* both issueEventIdMap and prEventIdMap.
C39_CommentAnchoredToOneParent ==
  AnchoredToOneParent

\* Comment mirroring is on and no issue and no pull request was imported.
NothingToCommentOn ==
  /\ context # NoContext
  /\ context.config.mirrorComments = <<TRUE>>
  /\ context.issueEventIdMap = <<>> /\ context.prEventIdMap = <<>>

CommentCalls == {"listAllIssueComments", "listIssueComments", "listPullRequestComments"}

\* C40: with comment mirroring on and both ID maps empty, the comment stage is
\* one step that goes on to the profile stage whether or not the run was
\* cancelled, calls nothing and raises nothing; such a run never requests
\* comments from the provider and its result reports zero comments.
C40_EmptyMapsSkipCommentStage ==
  /\ [][(pc = "mirrorComments" /\ pc' # pc /\ NothingToCommentOn') =>
          /\ pc' = "publishProfileEvents"
          /\ loc'.commentsImported = 0
          /\ UNCHANGED <<hist, outcome, isImporting>>]_vars
  /\ [](NothingToCommentOn /\ StageNo \in 5..9 =>
          /\ hist.calls \cap CommentCalls = {}
          /\ StageNo # 5 \/ pc = "mirrorComments"
          /\ outcome.kind = "result" => outcome.result.commentsImported = 0)

\* A cancelled run has passed the comment stage with nothing to comment on.
C40_Witness ==
  /\ pc = "publishProfileEvents"
  /\ NothingToCommentOn
  /\ throwIfAborted(context)
  /\ hist.err = ""

====
